---- MODULE Spec2Model ----
(***************************************************************************)
(* State-machine model of the crying-event backend (src/backend/app.py,    *)
(* src/engine/engine.py, src/backend/engine/learning.py,                   *)
(* src/db/sqlite_store.py).                                                *)
(*                                                                         *)
(* The HTTP server is http.server.HTTPServer (src/backend/app.py:1375): it *)
(* serves one request at a time, so every handler is one atomic action.    *)
(*                                                                         *)
(* Conventions                                                             *)
(*  - a Python dict is a function whose DOMAIN is the set of its keys;     *)
(*  - Python None is NoneD where a dict is expected, None where a string   *)
(*    is expected;                                                         *)
(*  - probabilities are integers in units of 1/Scale (4 decimals, the      *)
(*    precision of every round(..., 4) in the source);                     *)
(*  - time is in seconds; an id is the reading of a counter that stands    *)
(*    for the microsecond timestamp the id is formatted from.              *)
(***************************************************************************)
EXTENDS Integers, Sequences, FiniteSets, TLC

\* ------------------------------------------------------------------------
\* Bounds of the model
\* ------------------------------------------------------------------------
MaxEvents == 2
MaxStreams == 2
MaxChunks == 3
MaxTicks == 2
MaxFeedback == 1
MaxCadenceStreams == 1
MaxCadenceChunks == 6

\* ------------------------------------------------------------------------
\* Program constants
\* ------------------------------------------------------------------------
LIVE_CHUNK_MAX_BYTES == 512 * 1024
LIVE_PARTIAL_EVERY_CHUNKS == 3
LIVE_STREAM_TIMEOUT_SEC == 300
HIGH_INTENSITY_WINDOW_MIN == 60
HIGH_INTENSITY_THRESHOLD == 3
AB_AUTO_SPLIT == FALSE
RECENT_LIMIT == 20
PARTIAL_UPDATES_KEPT == 20
CAUSE_LABELS == {"hunger", "discomfort", "emotional_need", "unknown"}
Scale == 10000

CRYING_NOTICE == "Crying insights are generated based on sound patterns and recent care history. They are probabilistic suggestions to assist caregivers, not medical diagnoses."
GUIDANCE_UNAVAILABLE_NOTICE == "Guidance unavailable due to limited data at this time."
SAFETY_NOTICE == "If high-intensity crying continues or worsens, consider contacting a pediatric professional."

\* The clock advances in steps of the timeout, so that an idle time of exactly
\* the timeout (not stale) and of more than it (stale) both occur.
ClockStep == LIVE_STREAM_TIMEOUT_SEC

\* a timestamp that is written for the record and read by no code path
\* (started_at, last_chunk_at, ended_at, created_at, partial_updates[].at)
Timestamp == "iso_now"

\* ------------------------------------------------------------------------
\* Python values
\* ------------------------------------------------------------------------
None == "None"
NoneD == [py_none |-> TRUE]
EmptyDict == [k \in {} |-> 0]

SetKey(d, k, v) == [x \in (DOMAIN d) \cup {k} |-> IF x = k THEN v ELSE d[x]]
PopKey(d, k) == [x \in (DOMAIN d) \ {k} |-> d[x]]
Get(d, k, default) == IF k \in DOMAIN d THEN d[k] ELSE default
HasKey(d, k) == k \in DOMAIN d

\* round(n / d) to the nearest integer, ties to even (Python's round)
RoundDiv(n, d) ==
    LET q == n \div d
        r == n % d
    IN  IF 2 * r < d THEN q
        ELSE IF 2 * r > d THEN q + 1
        ELSE IF q % 2 = 0 THEN q ELSE q + 1

RECURSIVE SumOver(_, _)
SumOver(f, S) ==
    IF S = {} THEN 0
    ELSE LET x == CHOOSE y \in S : TRUE IN f[x] + SumOver(f, S \ {x})

RECURSIVE SumSeq(_)
SumSeq(s) == IF s = <<>> THEN 0 ELSE Head(s) + SumSeq(Tail(s))

Max2(a, b) == IF a >= b THEN a ELSE b
Min2(a, b) == IF a <= b THEN a ELSE b

\* A label is modelled by its JSON text.  A label that is a JSON array or
\* object is unhashable: using it as a dict key raises TypeError.
UnhashableLabels == {"[hunger, discomfort]"}

\* ------------------------------------------------------------------------
\* Prior store (src/backend/engine/learning.py)
\* ------------------------------------------------------------------------
DEFAULT_PRIORS == [l \in CAUSE_LABELS |-> Scale \div 4]
DELTA == Scale \div 20
CLAMP_LOW == Scale \div 20
CLAMP_HIGH == (9 * Scale) \div 10

\* an occurrence time is [t |-> seconds (UTC instant), off |-> UTC offset in
\* seconds of the way it is written]; datetime.fromisoformat keeps the
\* written offset, and .hour is the hour as written
HourOf(occurred_at) == ((occurred_at.t + occurred_at.off) \div 3600) % 24

time_bucket(occurred_at) ==
    IF occurred_at = NoneD THEN "day"
    ELSE IF HourOf(occurred_at) >= 20 \/ HourOf(occurred_at) < 6 THEN "night" ELSE "day"

normalize(priors) ==
    LET total == SumOver(priors, DOMAIN priors)
    IN  IF total <= 0 THEN DEFAULT_PRIORS
        ELSE [k \in DOMAIN priors |-> RoundDiv(priors[k] * Scale, total)]

merge_prior_values(source) ==
    IF source = NoneD THEN DEFAULT_PRIORS
    ELSE [k \in CAUSE_LABELS |->
            IF k \in DOMAIN source THEN Max2(0, source[k]) ELSE DEFAULT_PRIORS[k]]

\* the memory file holds JSON that is not an object: _load_memory returns it
\* as it is and data.get raises AttributeError
NotAnObject == [json_array |-> TRUE]

load_raises(mem) == mem = NotAnObject

load_reasoning_priors(mem, occurred_at) ==
    LET bucket == time_bucket(occurred_at)
    IN  IF HasKey(mem, "reasoning_priors_buckets") /\ mem["reasoning_priors_buckets"] # NoneD
        THEN normalize(merge_prior_values(Get(mem["reasoning_priors_buckets"], bucket, NoneD)))
        ELSE normalize(merge_prior_values(Get(mem, "reasoning_priors", NoneD)))

\* isinstance(helpful, bool): the JSON value of feedback.helpful is written
\* "True" / "False" when it is a boolean, anything else otherwise
IsBool(v) == v \in {"True", "False"}

\* the value written at the label: the sum clamped to [0.05, 0.9]
clamped_step(value, delta) == Max2(CLAMP_LOW, Min2(CLAMP_HIGH, value + delta))

\* returns [update |-> the learning record or NoneD, mem |-> the memory file,
\* stepped |-> the distribution just before it is renormalized, NoneD when
\* nothing is updated, raised |-> an exception left the function]
update_reasoning_priors(mem, event, feedback) ==
    LET helpful == Get(feedback, "helpful", None)
        payload == event.payload
        ai_guidance == Get(payload, "ai_guidance", NoneD)
        most_likely == IF ai_guidance = NoneD THEN NoneD
                       ELSE Get(ai_guidance, "most_likely_cause", NoneD)
        label == IF most_likely = NoneD THEN None ELSE Get(most_likely, "label", None)
    IN  IF feedback = NoneD \/ ~IsBool(helpful) \/ ai_guidance = NoneD \/ most_likely = NoneD
        THEN [update |-> NoneD, mem |-> mem, stepped |-> NoneD, raised |-> FALSE]
        \* "label not in DEFAULT_PRIORS" hashes the label
        ELSE IF label \in UnhashableLabels
        THEN [update |-> NoneD, mem |-> mem, stepped |-> NoneD, raised |-> TRUE]
        ELSE IF label \notin CAUSE_LABELS
        THEN [update |-> NoneD, mem |-> mem, stepped |-> NoneD, raised |-> FALSE]
        ELSE
        LET bucket == time_bucket(event.occurred_at)
            buckets == Get(mem, "reasoning_priors_buckets", EmptyDict)
            source_bucket == IF HasKey(buckets, bucket) THEN buckets[bucket]
                             ELSE Get(mem, "reasoning_priors", NoneD)
            current == normalize(merge_prior_values(source_bucket))
            delta == IF helpful = "True" THEN DELTA ELSE 0 - DELTA
            stepped == [current EXCEPT ![label] = clamped_step(current[label], delta)]
            after == normalize(stepped)
            buckets2 == SetKey(buckets, bucket, after)
            mem2 == SetKey(SetKey(mem, "reasoning_priors_buckets", buckets2),
                           "reasoning_priors", after)
        IN  [update |-> [updated_label |-> label, time_bucket |-> bucket,
                         helpful |-> helpful, delta |-> delta,
                         before |-> current, after |-> after],
             mem |-> mem2, stepped |-> stepped, raised |-> FALSE]

\* ------------------------------------------------------------------------
\* Reasoning orchestrator (src/engine/engine.py)
\* ------------------------------------------------------------------------
\* Bytes are a sequence of chunk sizes; b"" and None are both <<>> or all-empty
\* chunks ("if audio_bytes" is a test of the total length).
HasBytes(audio_bytes) == SumSeq(audio_bytes) > 0

\* the written form of an occurrence time, as SQLite compares the strings
SortKey(occurred_at) == occurred_at.t + occurred_at.off

\* minutes since an event, <<>> for None
minutes_since(occurred_at, now) ==
    IF occurred_at = NoneD THEN <<>> ELSE << (now - occurred_at.t) \div 60 >>

\* the first event of a category in recent_events (ordered most recent first)
FirstOfCategory(recent_events, category) ==
    LET S == {e \in recent_events : e.category = category}
    IN  IF S = {} THEN NoneD
        ELSE CHOOSE e \in S : \A f \in S : SortKey(f.occurred_at) <= SortKey(e.occurred_at)

\* float("inf"), which json.loads gives for a number such as 1e400
Infinity == [inf |-> TRUE]

\* int(duration) of the payload of the latest sleep event: OverflowError for
\* an infinite duration_min, before the summary is built
sleep_duration_raises(recent_events) ==
    IF FirstOfCategory(recent_events, "sleep") = NoneD THEN FALSE
    ELSE Get(FirstOfCategory(recent_events, "sleep").payload, "duration_min", NoneD) = Infinity

\* the summary without last_sleep_duration_min, which only the provider reads
build_recent_summary(recent_events, now) ==
    LET m(category) ==
            IF FirstOfCategory(recent_events, category) = NoneD THEN <<>>
            ELSE minutes_since(FirstOfCategory(recent_events, category).occurred_at, now)
    IN  [last_feeding_minutes_ago |-> m("feeding"),
         last_diaper_minutes_ago |-> m("diaper"),
         last_sleep_minutes_ago |-> m("sleep")]

\* ids of the recent crying events whose guidance is sent along (the limit of
\* 3 is not reached needlessly: see MaxEvents)
collect_recent_guidance(recent_events) ==
    {e.id : e \in {x \in recent_events :
                      x.category = "crying" /\ HasKey(x.payload, "ai_guidance")}}

is_probability(v) == v >= 0 /\ v <= Scale

\* a normalization that keeps the values below 0
normalize_inference_signed(inference) ==
    LET normalized == [l \in CAUSE_LABELS |->
                          IF inference # NoneD /\ HasKey(inference, l)
                          THEN inference[l] ELSE 0]
        total == SumOver(normalized, CAUSE_LABELS)
    IN  IF total <= 0
        THEN [l \in CAUSE_LABELS |-> IF l = "unknown" THEN Scale ELSE 0]
        ELSE [l \in CAUSE_LABELS |-> RoundDiv(normalized[l] * Scale, total)]

normalize_inference(inference) ==
    LET normalized == [l \in CAUSE_LABELS |->
                          IF inference # NoneD /\ HasKey(inference, l) /\ inference[l] >= 0
                          THEN inference[l] ELSE 0]
        total == SumOver(normalized, CAUSE_LABELS)
    IN  IF total <= 0
        THEN [l \in CAUSE_LABELS |-> IF l = "unknown" THEN Scale ELSE 0]
        ELSE [l \in CAUSE_LABELS |-> RoundDiv(normalized[l] * Scale, total)]

\* "" when valid, the message otherwise
validate_audio_analysis(payload) ==
    IF payload = NoneD THEN "audio_analysis must be an object"
    ELSE IF ~HasKey(payload, "inference") \/ payload["inference"] = NoneD
    THEN "audio_analysis.inference must be an object"
    ELSE IF ~\E l \in CAUSE_LABELS :
               HasKey(payload["inference"], l) /\ is_probability(payload["inference"][l])
    THEN "audio_analysis.inference must include probability values in [0,1]"
    ELSE ""

REQUIRED_TOP == <<"most_likely_cause", "alternative_causes", "recommended_actions", "caregiver_notice">>
REQUIRED_MLC == <<"label", "confidence", "reasoning">>

\* the first key of the sequence keys that d lacks, "" when it has them all
RECURSIVE FirstMissing(_, _)
FirstMissing(d, keys) ==
    IF keys = <<>> THEN ""
    ELSE IF ~HasKey(d, Head(keys)) THEN Head(keys)
    ELSE FirstMissing(d, Tail(keys))

validate_guidance_output(payload) ==
    IF payload = NoneD THEN "Guidance output is not a JSON object."
    ELSE IF FirstMissing(payload, REQUIRED_TOP) # "" THEN "Missing field"
    ELSE LET mlc == payload["most_likely_cause"]
             alts == payload["alternative_causes"]
    IN  IF mlc = NoneD THEN "most_likely_cause must be object"
        ELSE IF FirstMissing(mlc, REQUIRED_MLC) # "" THEN "most_likely_cause missing key"
        ELSE IF ~is_probability(mlc["confidence"])
        THEN "most_likely_cause.confidence must be a number in [0, 1]"
        ELSE IF \E i \in DOMAIN alts : ~HasKey(alts[i], "confidence")
        THEN "alternative_causes confidence missing"
        ELSE IF \E i \in DOMAIN alts : ~is_probability(alts[i]["confidence"])
        THEN "alternative_causes confidence must be number in [0, 1]"
        ELSE ""

\* a tiering that takes the thresholds themselves for the tier below
derive_confidence_level_above(score) ==
    IF 4 * score > 3 * Scale THEN "high"
    ELSE IF 20 * score > 9 * Scale THEN "medium"
    ELSE "low"

derive_confidence_level(score) ==
    IF 4 * score >= 3 * Scale THEN "high"
    ELSE IF 20 * score >= 9 * Scale THEN "medium"
    ELSE "low"

has_limited_context(recent_summary, recent_events) ==
    IF recent_events = {} THEN TRUE
    ELSE Cardinality({k \in DOMAIN recent_summary : recent_summary[k] = <<>>}) >= 2

\* A label that is a JSON array or object passes validation (only its
\* presence is checked): learned_priors.get(label) raises TypeError, whatever
\* the priors are.
blend_raises(guidance) == guidance["most_likely_cause"]["label"] \in UnhashableLabels

apply_prior_blend(guidance, learned_priors) ==
    LET most_likely == guidance["most_likely_cause"]
        label == most_likely["label"]
        confidence == most_likely["confidence"]
    IN  IF ~HasKey(learned_priors, label) THEN guidance
        ELSE IF ~is_probability(learned_priors[label]) \/ ~is_probability(confidence)
        THEN guidance
        ELSE SetKey(SetKey(guidance, "most_likely_cause",
                           SetKey(most_likely, "confidence",
                                  RoundDiv(7 * confidence + 3 * learned_priors[label], 10))),
                    "prior_weight",
                    [label |-> label, prior |-> learned_priors[label],
                     strategy |-> "0.7_model + 0.3_feedback_prior"])

finalize_guidance(payload, recent_summary, recent_events, learned_priors) ==
    LET blended == apply_prior_blend(payload, learned_priors)
        levelled == SetKey(blended, "confidence_level",
                           derive_confidence_level(blended["most_likely_cause"]["confidence"]))
    IN  IF has_limited_context(recent_summary, recent_events)
        THEN SetKey(levelled, "uncertainty_note", "Limited recent care data available")
        ELSE PopKey(levelled, "uncertainty_note")

request_mode(audio_bytes) == IF HasBytes(audio_bytes) THEN "multimodal" ELSE "text_contextual"

gemini_meta(audio_bytes, latency_ms) ==
    [model_name |-> "gemini-3", latency_ms |-> latency_ms,
     request_mode |-> request_mode(audio_bytes)]

\* A provider response is [transport, body, parsed, latency_ms]: transport
\* "ok", "http_error" (status >= 400) or "exception" (timeout, network
\* error); body "bare_json", "wrapped_json" (a JSON object inside prose),
\* "not_json" or "no_text" (no candidates[0].content.parts[0].text); parsed
\* is the JSON object of the text.  e is the credentials found in the
\* environment: "configured", "no_key" or "no_endpoint".
\* Returns [text, meta, error, requests]: requests counts requests.post.
call_gemini(e, audio_bytes, response) ==
    IF e = "no_key"
    THEN [text |-> NoneD, meta |-> gemini_meta(audio_bytes, 0),
          error |-> "GEMINI_API_KEY not set", requests |-> 0]
    ELSE IF e = "no_endpoint"
    THEN [text |-> NoneD, meta |-> gemini_meta(audio_bytes, 0),
          error |-> "GEMINI_API_ENDPOINT not set", requests |-> 0]
    ELSE IF response.transport = "http_error"
    THEN [text |-> NoneD, meta |-> gemini_meta(audio_bytes, response.latency_ms),
          error |-> "Gemini HTTP error", requests |-> 1]
    ELSE IF response.transport = "exception"
    THEN [text |-> NoneD, meta |-> gemini_meta(audio_bytes, response.latency_ms),
          error |-> "Gemini request failed", requests |-> 1]
    ELSE IF response.body = "no_text"
    THEN [text |-> NoneD, meta |-> gemini_meta(audio_bytes, response.latency_ms),
          error |-> "Gemini response parse failed", requests |-> 1]
    ELSE [text |-> response, meta |-> gemini_meta(audio_bytes, response.latency_ms),
          error |-> "", requests |-> 1]

extract_json(text) ==
    IF text.body \in {"bare_json", "wrapped_json"} THEN text.parsed ELSE NoneD

\* the request context that an error carries
user_input_of(current_event, recent_summary, recent_events, audio_bytes, learned_priors) ==
    [time |-> current_event.occurred_at,
     recent_care_summary |-> recent_summary,
     recent_ai_guidance |-> collect_recent_guidance(recent_events),
     learned_priors |-> learned_priors,
     audio_analysis |-> IF HasBytes(audio_bytes) THEN NoneD
                        ELSE Get(current_event.payload, "audio_analysis", EmptyDict)]

\* (None, error)
reasoning_failure(called, message, key, value) ==
    [ok |-> FALSE, raised |-> FALSE, result |-> NoneD, requests |-> called.requests,
     error |-> SetKey([error |-> message, ai_meta |-> called.meta], key, value)]

\* (result, None)
reasoning_success(called, audio_analysis, finalized_guidance) ==
    [ok |-> TRUE, raised |-> FALSE, error |-> NoneD, requests |-> called.requests,
     result |-> [audio_analysis |->
                    [transcription |-> Get(audio_analysis, "transcription", ""),
                     inference |-> normalize_inference(audio_analysis["inference"])],
                 ai_guidance |-> finalized_guidance,
                 ai_meta |-> called.meta]]

\* neither: the TypeError of _apply_prior_blend leaves run_reasoning
reasoning_raised(called) ==
    [ok |-> FALSE, raised |-> TRUE, result |-> NoneD, error |-> NoneD,
     requests |-> called.requests]

\* ai_guidance of the parsed object, the object itself when it is
\* guidance-shaped (backward compatibility)
guidance_of(parsed) ==
    IF Get(parsed, "ai_guidance", NoneD) = NoneD /\ Get(parsed, "most_likely_cause", NoneD) # NoneD
    THEN parsed
    ELSE Get(parsed, "ai_guidance", NoneD)

\* audio_analysis of the parsed object, else the one already on the event
audio_analysis_of(parsed, payload) ==
    IF Get(parsed, "audio_analysis", NoneD) = NoneD
    THEN Get(payload, "audio_analysis", EmptyDict)
    ELSE parsed["audio_analysis"]

reasoning_validated(recent_summary, recent_events, learned_priors, called, parsed, audio_analysis, ai_guidance) ==
    IF validate_audio_analysis(audio_analysis) # ""
    THEN reasoning_failure(called, validate_audio_analysis(audio_analysis), "raw_output", parsed)
    ELSE IF validate_guidance_output(ai_guidance) # ""
    THEN reasoning_failure(called, validate_guidance_output(ai_guidance), "raw_output", parsed)
    ELSE IF blend_raises(ai_guidance) THEN reasoning_raised(called)
    ELSE reasoning_success(called, audio_analysis,
            finalize_guidance(ai_guidance, recent_summary, recent_events, learned_priors))

reasoning_called(payload, recent_summary, recent_events, learned_priors, user_input, called) ==
    IF called.error # "" THEN reasoning_failure(called, called.error, "input", user_input)
    ELSE IF extract_json(called.text) = NoneD
    THEN reasoning_failure(called, "Gemini output is not valid JSON", "raw_text", called.text.body)
    ELSE reasoning_validated(recent_summary, recent_events, learned_priors, called,
            extract_json(called.text),
            audio_analysis_of(extract_json(called.text), payload),
            guidance_of(extract_json(called.text)))

reasoning_with_summary(current_event, recent_summary, recent_events, audio_bytes, learned_priors, e, response) ==
    reasoning_called(current_event.payload, recent_summary, recent_events, learned_priors,
        user_input_of(current_event, recent_summary, recent_events, audio_bytes, learned_priors),
        call_gemini(e, audio_bytes, response))

\* returns [ok, raised, result, error, requests]: (result, None), (None, error)
\* or an exception raised to the caller
run_reasoning(current_event, recent_events, audio_bytes, learned_priors, e, response, now) ==
    IF sleep_duration_raises(recent_events)
    THEN reasoning_raised([requests |-> 0])
    ELSE reasoning_with_summary(current_event, build_recent_summary(recent_events, now),
                                recent_events, audio_bytes, learned_priors, e, response)

\* ------------------------------------------------------------------------
\* Event store (src/db/sqlite_store.py): a table keyed by event id
\* ------------------------------------------------------------------------
\* INSERT OR IGNORE
insert_event(ev, event) ==
    IF event.id \in DOMAIN ev THEN ev
    ELSE [i \in (DOMAIN ev) \cup {event.id} |-> IF i = event.id THEN event ELSE ev[i]]

get_event_by_id(ev, event_id) == IF event_id \in DOMAIN ev THEN ev[event_id] ELSE NoneD

update_event_payload(ev, event_id, payload) ==
    IF event_id \in DOMAIN ev THEN [ev EXCEPT ![event_id].payload = payload] ELSE ev

\* ORDER BY occurred_at DESC LIMIT limit, as the set of the rows returned
fetch_recent_events(ev, limit) ==
    {ev[i] : i \in {j \in DOMAIN ev :
        Cardinality({k \in DOMAIN ev :
            SortKey(ev[k].occurred_at) > SortKey(ev[j].occurred_at)}) < limit}}

fetch_events_by_category(ev, category) == {ev[i] : i \in {j \in DOMAIN ev : ev[j].category = category}}

\* ------------------------------------------------------------------------
\* API handler helpers (src/backend/app.py)
\* ------------------------------------------------------------------------
\* the stub result of src/backend/audio/analysis.py
stub_gemini_result ==
    [transcription |-> "high-pitched crying",
     inference |-> [hunger |-> 6200, discomfort |-> 2300, emotional_need |-> 1000, unknown |-> 500],
     model |-> "gemini-3"]

\* the transcriptions of the model that contain one of the keywords
\* "high", "intense", "piercing", "loud", "shrill"
KeywordTranscriptions == {"high-pitched crying", "loud crying"}

event_time(event) == event.occurred_at.t

is_high_intensity(event) ==
    /\ HasKey(event.payload, "audio_analysis")
    /\ Get(event.payload["audio_analysis"], "transcription", "") \in KeywordTranscriptions

high_count_of(current_high, recent_high) == (IF current_high THEN 1 ELSE 0) + recent_high

should_add_safety_notice(current_event, recent_events) ==
    LET current_time == event_time(current_event)
        window_start == current_time - 60 * HIGH_INTENSITY_WINDOW_MIN
        high == {e \in recent_events :
                    /\ e.category = "crying"
                    /\ window_start <= event_time(e) /\ event_time(e) <= current_time
                    /\ is_high_intensity(e)}
        high_count == high_count_of(is_high_intensity(current_event), Cardinality(high))
    IN  high_count >= HIGH_INTENSITY_THRESHOLD

\* the notice is its sequence of lines
compose_notice(include_guidance_unavailable, include_safety) ==
    <<CRYING_NOTICE>>
    \o (IF include_guidance_unavailable THEN <<GUIDANCE_UNAVAILABLE_NOTICE>> ELSE <<>>)
    \o (IF include_safety THEN <<SAFETY_NOTICE>> ELSE <<>>)

\* ---- GET /api/metrics ----
\* A number that may be None is a sequence: <<>> for None, <<x>> for x.
\* Rates are in units of 1/Scale, minutes are integers, medians and their
\* differences are in hundredths of a minute.
feedback_of(event) == Get(event.payload, "user_feedback", NoneD)

has_bool_feedback(event) == feedback_of(event) # NoneD /\ IsBool(Get(feedback_of(event), "helpful", None))

is_helpful(event) == feedback_of(event)["helpful"] = "True"

has_resolved_in(event) == HasKey(feedback_of(event), "resolved_in_minutes")

resolved_in(event) == feedback_of(event)["resolved_in_minutes"]

\* isinstance(ai_guidance, dict) and bool(ai_guidance.get("uncertainty_note"))
has_uncertainty_note(event) ==
    /\ HasKey(event.payload, "ai_guidance")
    /\ HasKey(event.payload["ai_guidance"], "uncertainty_note")

\* ab_test.get("shown_variant") or ab_test.get("assigned_variant")
metrics_variant(event) ==
    IF ~HasKey(event.payload, "ab_test") THEN None
    ELSE IF Get(event.payload["ab_test"], "shown_variant", None) \notin {None, ""}
    THEN event.payload["ab_test"]["shown_variant"]
    ELSE Get(event.payload["ab_test"], "assigned_variant", None)

\* a rate that is 0 when there is no sample
rate_or_zero(sample) ==
    IF sample = {} THEN <<0>>
    ELSE <<RoundDiv(Cardinality({e \in sample : is_helpful(e)}) * Scale, Cardinality(sample))>>

rate_of(sample) ==
    IF sample = {} THEN <<>>
    ELSE <<RoundDiv(Cardinality({e \in sample : is_helpful(e)}) * Scale, Cardinality(sample))>>

\* the k-th smallest resolved_in_minutes of the sample, k from 1
kth_resolved(sample, k) ==
    CHOOSE x \in {resolved_in(e) : e \in sample} :
        /\ Cardinality({e \in sample : resolved_in(e) < x}) < k
        /\ k <= Cardinality({e \in sample : resolved_in(e) <= x})

\* _median of the resolved_in_minutes of the events of the sample that have one
median(sample) ==
    LET resolved == {e \in sample : has_resolved_in(e)}
        n == Cardinality(resolved)
    IN  IF n = 0 THEN <<>>
        ELSE IF n % 2 = 1 THEN <<100 * kth_resolved(resolved, (n + 1) \div 2)>>
        ELSE <<50 * (kth_resolved(resolved, n \div 2) + kth_resolved(resolved, n \div 2 + 1))>>

\* a - b, None when either is None
difference(a, b) == IF a # <<>> /\ b # <<>> THEN <<a[1] - b[1]>> ELSE <<>>

slice_metrics(sample) == [samples |-> Cardinality(sample), helpful_rate |-> rate_of(sample), median_resolved_minutes |-> median(sample)]

metrics_of(crying, scored, with_context, limited_context, ab_treatment, ab_control) ==
    [helpful_rate |-> rate_of(scored),
     median_resolved_minutes |-> median(scored),
     uplift |-> [helpful_rate_uplift |-> difference(rate_of(with_context), rate_of(limited_context)),
                 median_resolved_minutes_delta |-> difference(median(limited_context), median(with_context))],
     context_comparison |-> [with_context |-> slice_metrics(with_context),
                             no_context |-> slice_metrics(limited_context),
                             limited_context |-> slice_metrics(limited_context)],
     ab_comparison |-> [treatment |-> slice_metrics(ab_treatment), control |-> slice_metrics(ab_control)],
     ab_uplift |-> [helpful_rate_uplift |-> difference(rate_of(ab_treatment), rate_of(ab_control)),
                    median_resolved_minutes_delta |-> difference(median(ab_control), median(ab_treatment))],
     totals |-> [crying_events |-> Cardinality(crying), feedback_events |-> Cardinality(scored)]]

scored_events(ev) == {e \in fetch_events_by_category(ev, "crying") : has_bool_feedback(e)}

build_metrics(ev) ==
    metrics_of(fetch_events_by_category(ev, "crying"), scored_events(ev),
               {e \in scored_events(ev) : ~has_uncertainty_note(e)},
               {e \in scored_events(ev) : has_uncertainty_note(e)},
               {e \in scored_events(ev) : metrics_variant(e) = "treatment"},
               {e \in scored_events(ev) : metrics_variant(e) = "control"})

\* int(hashlib.md5(event_id).hexdigest()[:2], 16): the leading byte of the
\* digest, tabulated for the ids evt_20260101_000000_00000n, n = 1 .. 8
MD5_LEADING_BYTE == <<88, 3, 85, 60, 74, 63, 66, 177>>

\* the arm of a leading digest byte
variant_of_byte(byte) == IF byte % 2 = 1 THEN "control" ELSE "treatment"

\* an assignment in which the split, when enabled, overrides the request
resolve_ab_variant_split_first(auto_split, requested_variant, event_id) ==
    IF auto_split THEN variant_of_byte(MD5_LEADING_BYTE[event_id])
    ELSE IF requested_variant \in {"treatment", "control"} THEN requested_variant
    ELSE "treatment"

\* _resolve_ab_variant in a process started with AB_AUTO_SPLIT = auto_split
resolve_ab_variant_when(auto_split, requested_variant, event_id) ==
    IF requested_variant \in {"treatment", "control"} THEN requested_variant
    ELSE IF auto_split THEN variant_of_byte(MD5_LEADING_BYTE[event_id])
    ELSE "treatment"

resolve_ab_variant(requested_variant, event_id) ==
    resolve_ab_variant_when(AB_AUTO_SPLIT, requested_variant, event_id)

\* a sweep that waits for twice the timeout
StaleIdsLate(streams, now) ==
    {s \in DOMAIN streams : now - streams[s].last_activity > 2 * LIVE_STREAM_TIMEOUT_SEC}

StaleIds(streams, now) ==
    {s \in DOMAIN streams : now - streams[s].last_activity > LIVE_STREAM_TIMEOUT_SEC}

\* the payload the sweep writes for the event of a stale stream
TimedOutPayload(payload, now) ==
    LET streaming == Get(payload, "streaming", EmptyDict)
        closed == SetKey(SetKey(SetKey(streaming, "status", "completed"),
                                "ended_at", Timestamp), "ended_reason", "timeout")
    IN  SetKey(SetKey(payload, "streaming", closed), "notice", compose_notice(TRUE, FALSE))

\* returns [streams |-> LIVE_STREAMS after the sweep, events |-> the store after it]
cleanup_stale_live_streams(streams, ev, now) ==
    LET stale == StaleIds(streams, now)
        swept == {streams[s].event_id : s \in stale}
    IN  [streams |-> [s \in (DOMAIN streams) \ stale |-> streams[s]],
         events |-> [i \in DOMAIN ev |->
                        IF i \in swept
                        THEN [ev[i] EXCEPT !.payload = TimedOutPayload(ev[i].payload, now)]
                        ELSE ev[i]]]

recent_events_excluding(ev, event_id) ==
    {e \in fetch_recent_events(ev, RECENT_LIMIT) : e.id # event_id}

\* what the model records of one run_reasoning invocation
call_record(arm, event, recent_events, learned_priors, audio_bytes, reasoning) ==
    [arm |-> arm, event_id |-> event.id, recent |-> {x.id : x \in recent_events},
     learned_priors |-> learned_priors, audio |-> HasBytes(audio_bytes),
     audio_analysis |-> Get(event.payload, "audio_analysis", EmptyDict),
     requests |-> reasoning.requests, ok |-> reasoning.ok, raised |-> reasoning.raised,
     produced |-> IF reasoning.ok THEN reasoning.result.audio_analysis ELSE NoneD]

\* a control event that carries the analysis the event was stored with
control_event_stored(event, enrichment) ==
    [id |-> event.id, type |-> event.type, occurred_at |-> event.occurred_at,
     payload |-> [audio_analysis |-> Get(event.payload, "audio_analysis", EmptyDict)]]

control_event(event, enrichment) ==
    [id |-> event.id, type |-> event.type, occurred_at |-> event.occurred_at,
     payload |-> [audio_analysis |-> enrichment.audio_analysis]]

control_guidance(control) == IF control.ok THEN control.result.ai_guidance ELSE NoneD
control_meta(control) == IF control.ok THEN control.result.ai_meta ELSE EmptyDict

\* display selection
show_control(assigned_variant, control) ==
    assigned_variant = "control" /\ control_guidance(control) # NoneD

ab_test_record(assigned_variant, enrichment, control) ==
    [assigned_variant |-> assigned_variant,
     shown_variant |-> IF show_control(assigned_variant, control) THEN "control" ELSE "treatment",
     auto_split_enabled |-> AB_AUTO_SPLIT,
     baseline_mode |-> "no_context_no_prior",
     treatment |-> [ai_guidance |-> enrichment.ai_guidance, ai_meta |-> enrichment.ai_meta],
     control |-> [ai_guidance |-> control_guidance(control), ai_meta |-> control_meta(control)]]

ab_test_with_error(ab_test, control) ==
    IF control.ok THEN ab_test ELSE SetKey(ab_test, "control_error", control.error)

\* the payload of the success branch, before the notice
success_payload(payload, assigned_variant, enrichment, control) ==
    SetKey(SetKey(SetKey(SetKey(SetKey(payload,
        "audio_analysis", enrichment.audio_analysis),
        "ai", enrichment.audio_analysis),
        "ai_guidance", IF show_control(assigned_variant, control)
                       THEN control_guidance(control) ELSE enrichment.ai_guidance),
        "ai_meta", IF show_control(assigned_variant, control)
                   THEN control_meta(control) ELSE enrichment.ai_meta),
        "ab_test", ab_test_with_error(ab_test_record(assigned_variant, enrichment, control), control))

\* the payload of the failure branch, before the notice
failure_payload(payload, assigned_variant, error) ==
    SetKey(SetKey(PopKey(payload, "ai_guidance"),
        "ai_meta", Get(error, "ai_meta", EmptyDict)),
        "ab_test", [assigned_variant |-> assigned_variant, shown_variant |-> None,
                    auto_split_enabled |-> AB_AUTO_SPLIT,
                    baseline_mode |-> "no_context_no_prior",
                    treatment_error |-> error])

final_result(ev, event, payload, success, error, made) ==
    [event |-> [event EXCEPT !.payload = payload], success |-> success, error |-> error,
     events |-> update_event_payload(ev, event.id, payload), calls |-> made,
     raised |-> FALSE]

\* an exception of run_reasoning leaves _apply_reasoning_to_event before it
\* has written anything
final_raised(ev, event, made) ==
    [event |-> event, success |-> FALSE, error |-> NoneD, events |-> ev, calls |-> made,
     raised |-> TRUE]

\* the notice is composed on the event that already carries the new payload
final_with_notice(ev, event, recent_events, payload, success, error, made) ==
    final_result(ev, event,
        SetKey(payload, "notice",
               compose_notice(~success,
                   should_add_safety_notice([event EXCEPT !.payload = payload], recent_events))),
        success, error, made)

final_after_control(ev, event, assigned_variant, recent_events, made, treatment, control) ==
    IF control.raised THEN final_raised(ev, event, made)
    ELSE final_with_notice(ev, event, recent_events,
            success_payload(event.payload, assigned_variant, treatment.result, control),
            TRUE, NoneD, made)

final_control(ev, event, assigned_variant, recent_events, call1, treatment, control) ==
    final_after_control(ev, event, assigned_variant, recent_events,
        <<call1, call_record("control", control_event(event, treatment.result), {},
                             EmptyDict, <<>>, control)>>,
        treatment, control)

final_after_treatment(ev, e, now, event, assigned_variant, r2, recent_events, call1, treatment) ==
    IF treatment.raised THEN final_raised(ev, event, <<call1>>)
    ELSE IF treatment.ok
    THEN final_control(ev, event, assigned_variant, recent_events, call1, treatment,
            run_reasoning(control_event(event, treatment.result), {}, <<>>, EmptyDict, e, r2, now))
    ELSE final_with_notice(ev, event, recent_events,
            failure_payload(event.payload, assigned_variant, treatment.error),
            FALSE, treatment.error, <<call1>>)

final_treatment(ev, e, now, event, audio_bytes, assigned_variant, r2, recent_events, priors, treatment) ==
    final_after_treatment(ev, e, now, event, assigned_variant, r2, recent_events,
        call_record("treatment", event, recent_events, priors, audio_bytes, treatment),
        treatment)

final_with_context(ev, e, now, event, audio_bytes, assigned_variant, r1, r2, recent_events, priors) ==
    final_treatment(ev, e, now, event, audio_bytes, assigned_variant, r2, recent_events, priors,
        run_reasoning(event, recent_events, audio_bytes, priors, e, r1, now))

\* The final reasoning pass.  r1 and r2 are the provider's responses to the
\* treatment and to the control request.
\* returns [event, success, error, raised, events |-> the store, calls |-> the
\* run_reasoning invocations made, in order]
apply_reasoning_to_event(ev, mem, e, now, event, audio_bytes, assigned_variant, r1, r2) ==
    final_with_context(ev, e, now, event, audio_bytes, assigned_variant, r1, r2,
        recent_events_excluding(ev, event.id),
        load_reasoning_priors(mem, event.occurred_at))

\* ------------------------------------------------------------------------
\* The provider's responses and the requests of the model
\* ------------------------------------------------------------------------
GuidanceHunger ==
    [most_likely_cause |-> [label |-> "hunger", confidence |-> 9000, reasoning |-> "rhythmic cry"],
     alternative_causes |-> <<[label |-> "discomfort", confidence |-> 1000]>>,
     recommended_actions |-> <<[action |-> "offer a feed"]>>,
     caregiver_notice |-> "not a diagnosis"]

GuidanceDiscomfort ==
    [most_likely_cause |-> [label |-> "discomfort", confidence |-> 3000, reasoning |-> "fussing"],
     alternative_causes |-> <<>>,
     recommended_actions |-> <<>>,
     caregiver_notice |-> "not a diagnosis"]

RespHttpError == [transport |-> "http_error", body |-> "no_text", parsed |-> EmptyDict, latency_ms |-> 1]
\* requests.post raised: the timeout of 30 s, or a network error
RespTimeout == [transport |-> "exception", body |-> "no_text", parsed |-> EmptyDict, latency_ms |-> 30000]
RespNotJson == [transport |-> "ok", body |-> "not_json", parsed |-> EmptyDict, latency_ms |-> 1]
\* a JSON object whose guidance lacks caregiver_notice
RespInvalid ==
    [transport |-> "ok", body |-> "bare_json", latency_ms |-> 1,
     parsed |-> [audio_analysis |-> [transcription |-> "soft whimper",
                                     inference |-> [hunger |-> 5000]],
                 ai_guidance |-> PopKey(GuidanceHunger, "caregiver_notice")]]
\* both top-level keys, as the output contract asks
RespFull ==
    [transport |-> "ok", body |-> "wrapped_json", latency_ms |-> 1,
     parsed |-> [audio_analysis |-> [transcription |-> "loud crying",
                                     inference |-> [hunger |-> 6000, discomfort |-> 6000]],
                 ai_guidance |-> GuidanceHunger]]
\* the guidance-only shape of older prompts
RespGuidanceOnly ==
    [transport |-> "ok", body |-> "bare_json", latency_ms |-> 1, parsed |-> GuidanceDiscomfort]

\* every required key present, the label a JSON array
RespListLabel ==
    [transport |-> "ok", body |-> "bare_json", latency_ms |-> 1,
     parsed |-> [audio_analysis |-> [transcription |-> "loud crying",
                                     inference |-> [hunger |-> 5000, discomfort |-> 5000]],
                 ai_guidance |-> [GuidanceHunger EXCEPT
                                     !.most_likely_cause.label = "[hunger, discomfort]"]]]

\* provider outputs with one field missing or malformed
RespWith(audio_analysis, ai_guidance) ==
    [transport |-> "ok", body |-> "bare_json", latency_ms |-> 1,
     parsed |-> [audio_analysis |-> audio_analysis, ai_guidance |-> ai_guidance]]

AnalysisLoud == [transcription |-> "loud crying", inference |-> [hunger |-> 6000, discomfort |-> 4000]]

\* audio_analysis without a transcription
RespNoTranscription == RespWith([inference |-> [hunger |-> 6000, discomfort |-> 4000]], GuidanceHunger)
\* an inference value below 0 next to a valid one
RespNegativeInference ==
    RespWith([transcription |-> "loud crying", inference |-> [hunger |-> 0 - 2000, discomfort |-> 4000]],
             GuidanceHunger)
\* no inference value in [0, 1]
RespNoProbability ==
    RespWith([transcription |-> "loud crying", inference |-> [hunger |-> 0 - 2000]], GuidanceHunger)
\* audio_analysis without inference
RespNoInference == RespWith([transcription |-> "loud crying"], GuidanceHunger)
\* most_likely_cause.confidence above 1
RespBadConfidence ==
    RespWith(AnalysisLoud, [GuidanceHunger EXCEPT !.most_likely_cause.confidence = 12000])
\* most_likely_cause without reasoning
RespNoReasoning ==
    RespWith(AnalysisLoud, [GuidanceHunger EXCEPT
                               !.most_likely_cause = [label |-> "hunger", confidence |-> 9000]])
\* an alternative cause whose confidence is below 0
RespBadAlternative ==
    RespWith(AnalysisLoud, [GuidanceHunger EXCEPT
                               !.alternative_causes = <<[label |-> "discomfort", confidence |-> 0 - 1]>>])

\* a valid output whose transcription has none of the intensity keywords
RespCalm == RespWith([transcription |-> "soft whimper", inference |-> [hunger |-> 6000, discomfort |-> 4000]], GuidanceHunger)

MalformedResponses ==
    {RespNoTranscription, RespNegativeInference, RespNoProbability, RespNoInference,
     RespBadConfidence, RespNoReasoning, RespBadAlternative}

ProviderResponses ==
    {RespHttpError, RespNotJson, RespInvalid, RespFull, RespGuidanceOnly, RespListLabel}

\* without credentials no request is sent and no response is read
ResponsesFor(e, responses) == IF e = "configured" THEN responses ELSE {RespHttpError}

Envs == {"configured", "no_key", "no_endpoint"}
Variants == {None, "treatment", "control"}
ChunkSizes == {1, LIVE_CHUNK_MAX_BYTES, LIVE_CHUNK_MAX_BYTES + 1}
Categories == {"feeding", "diaper", "sleep"}
HelpfulValues == {"True", "False", "maybe"}

\* ------------------------------------------------------------------------
\* State
\* ------------------------------------------------------------------------
VARIABLES
    clock,          \* datetime.now(timezone.utc), in seconds
    env,            \* GEMINI_API_KEY / GEMINI_API_ENDPOINT of the process
    events,         \* the events table: id -> event
    LIVE_STREAMS,   \* the registry: stream_id -> session state
    files,          \* the live buffer files: path -> the chunks appended
    memory,         \* the content of MEMORY_FILE
    event_seq,      \* the event ids handed out
    stream_seq,     \* the stream ids handed out
    nfeedback,      \* the feedback requests handled
    resp,           \* the last request's kind and its response
    calls,          \* the run_reasoning invocations of the last request
    server          \* the HTTPServer: the connections waiting and the one in hand

vars == <<clock, env, events, LIVE_STREAMS, files, memory, event_seq, stream_seq,
          nfeedback, resp, calls, server>>

new_event_id == event_seq + 1
new_stream_id == stream_seq + 1

iso_now == [t |-> clock, off |-> 0]

Init ==
    /\ clock = 0
    /\ env \in Envs
    /\ events = EmptyDict
    /\ LIVE_STREAMS = EmptyDict
    /\ files = EmptyDict
    /\ memory = EmptyDict
    /\ event_seq = 0
    /\ stream_seq = 0
    /\ nfeedback = 0
    /\ resp = [op |-> "none"]
    /\ calls = <<>>
    /\ server = [backlog |-> <<>>, request |-> NoneD, answered |-> NoneD]

\* the clock advances between requests
Tick ==
    /\ clock < MaxTicks * ClockStep
    /\ clock' = clock + ClockStep
    /\ UNCHANGED <<env, server, events, LIVE_STREAMS, files, memory, event_seq, stream_seq,
                   nfeedback, resp, calls>>


\* ------------------------------------------------------------------------
\* Live endpoints (src/backend/app.py)
\* ------------------------------------------------------------------------
\* the response of a request whose handler raised: the server logs the
\* traceback and closes the connection, no status line is sent
NoResponse(op, stream_id) == [op |-> op, stream_id |-> stream_id, code |-> 0, error |-> "TypeError"]

mime_extension(mime_type) ==
    IF mime_type = "audio/wav" THEN ".wav"
    ELSE IF mime_type = "audio/webm" THEN ".webm"
    ELSE ".bin"

live_file_path(stream_id, mime_type) ==
    [dir |-> "live", name |-> stream_id, ext |-> mime_extension(mime_type)]

\* payload is the payload of the body ({} when absent); only ai_guidance is
\* removed from it
new_live_event(payload, event_id, stream_id, mime_type, assigned_variant) ==
    [id |-> event_id, type |-> "crying", occurred_at |-> iso_now, category |-> "crying",
     created_at |-> Timestamp,
     payload |->
        SetKey(SetKey(SetKey(SetKey(PopKey(payload, "ai_guidance"),
            "audio_mime_type", mime_type),
            "audio_path", live_file_path(stream_id, mime_type)),
            "notice", compose_notice(FALSE, FALSE)),
            "streaming", [stream_id |-> stream_id, status |-> "streaming",
                          started_at |-> Timestamp, last_chunk_at |-> None,
                          chunks_received |-> 0,
                          partial_every_chunks |-> LIVE_PARTIAL_EVERY_CHUNKS,
                          partial_updates |-> <<>>,
                          assigned_variant |-> assigned_variant])]

new_stream_state(event_id, stream_id, mime_type, assigned_variant) ==
    [event_id |-> event_id, file_path |-> live_file_path(stream_id, mime_type),
     audio_mime_type |-> mime_type, chunk_count |-> 0, total_bytes |-> 0,
     last_activity |-> clock, assigned_variant |-> assigned_variant]

start_stream(payload, swept, stream_id, event_id, mime_type, assigned_variant) ==
    /\ events' = insert_event(swept.events,
                     new_live_event(payload, event_id, stream_id, mime_type,
                                    assigned_variant))
    /\ LIVE_STREAMS' = SetKey(swept.streams, stream_id,
                           new_stream_state(event_id, stream_id, mime_type, assigned_variant))
    /\ event_seq' = event_id
    /\ stream_seq' = stream_id
    /\ resp' = [op |-> "start", code |-> 200, stream_id |-> stream_id,
                event_id |-> event_id, status |-> "streaming",
                partial_every_chunks |-> LIVE_PARTIAL_EVERY_CHUNKS]
    /\ calls' = <<>>
    /\ UNCHANGED <<clock, env, server, files, memory, nfeedback>>

\* the start handler once _new_stream_id and _new_event_id have returned
start_with_ids(body, swept, stream_id, event_id) ==
    IF body = NoneD
    THEN /\ LIVE_STREAMS' = swept.streams
         /\ events' = swept.events
         /\ resp' = [op |-> "start", code |-> 400, error |-> "Invalid JSON"]
         /\ calls' = <<>>
         /\ UNCHANGED <<clock, env, server, files, memory, event_seq, stream_seq, nfeedback>>
    ELSE start_stream(Get(body, "payload", EmptyDict), swept, stream_id, event_id,
                      IF body.audio_mime_type = None THEN "audio/webm" ELSE body.audio_mime_type,
                      resolve_ab_variant(body.ab_variant, event_id))

start_after_sweep(body, swept) == start_with_ids(body, swept, new_stream_id, new_event_id)

\* POST /api/events/crying/live/start.  body is NoneD for invalid JSON, else
\* [ab_variant, audio_mime_type] with or without a payload
handle_live_start(body) ==
    start_after_sweep(body, cleanup_stale_live_streams(LIVE_STREAMS, events, clock))

\* open(path, "ab").write(chunk): the file is created by the first append
AppendFile(fs, path, chunk_bytes) == SetKey(fs, path, Get(fs, path, <<>>) \o <<chunk_bytes>>)

LastN(s, n) == IF Len(s) <= n THEN s ELSE SubSeq(s, Len(s) - n + 1, Len(s))

\* the registry entry after an accepted chunk
ChunkedState(stream_state, chunk_bytes, mime_type, now) ==
    [stream_state EXCEPT
        !.chunk_count = stream_state.chunk_count + 1,
        !.total_bytes = stream_state.total_bytes + chunk_bytes,
        !.last_activity = now,
        !.audio_mime_type = IF mime_type # None THEN mime_type ELSE @]

\* the event payload after an accepted chunk
ChunkedPayload(payload, stream_state) ==
    SetKey(payload, "streaming",
        SetKey(SetKey(SetKey(SetKey(Get(payload, "streaming", EmptyDict),
            "status", "streaming"),
            "last_chunk_at", Timestamp),
            "chunks_received", stream_state.chunk_count),
            "total_bytes", stream_state.total_bytes))

\* a cadence that is only approximately every K chunks: from the K-th chunk
\* on, every chunk
PartialDueFromK(chunk_count) == chunk_count >= LIVE_PARTIAL_EVERY_CHUNKS

\* the partial cadence: whether this chunk count triggers partial reasoning
PartialDue(chunk_count) == chunk_count % LIVE_PARTIAL_EVERY_CHUNKS = 0

\* a rejection that still counts as activity of the session it names
chunk_rejected_active(stream_id, code, message, streams, ev) ==
    /\ LIVE_STREAMS' = [s \in DOMAIN streams |->
                            IF s = stream_id THEN [streams[s] EXCEPT !.last_activity = clock]
                            ELSE streams[s]]
    /\ events' = ev
    /\ resp' = [op |-> "chunk", stream_id |-> stream_id, code |-> code, error |-> message]
    /\ calls' = <<>>
    /\ UNCHANGED <<clock, env, server, files, memory, event_seq, stream_seq, nfeedback>>

chunk_rejected(stream_id, code, message, streams, ev) ==
    /\ LIVE_STREAMS' = streams
    /\ events' = ev
    /\ resp' = [op |-> "chunk", stream_id |-> stream_id, code |-> code, error |-> message]
    /\ calls' = <<>>
    /\ UNCHANGED <<clock, env, server, files, memory, event_seq, stream_seq, nfeedback>>

first_action(guidance) ==
    IF guidance["recommended_actions"] # <<>>
    THEN Get(guidance["recommended_actions"][1], "action", None)
    ELSE None

partial_guidance_of(guidance) ==
    [most_likely_cause |-> guidance["most_likely_cause"],
     recommended_next_action |-> first_action(guidance),
     confidence_level |-> guidance["confidence_level"]]

partial_meta_of(ai_meta) == SetKey(ai_meta, "request_mode", "multimodal_partial")

partial_update(chunk_count, partial_guidance, partial_meta) ==
    [at |-> Timestamp, chunks_received |-> chunk_count,
     partial_guidance |-> partial_guidance, ai_meta |-> partial_meta]

\* the event payload after a partial reasoning call that succeeded
PartialPayload(payload, chunk_count, enrichment, partial_guidance, partial_meta) ==
    SetKey(SetKey(SetKey(payload,
        "streaming",
            SetKey(SetKey(payload["streaming"],
                "partial_updates",
                    LastN(Get(payload["streaming"], "partial_updates", <<>>)
                          \o <<partial_update(chunk_count, partial_guidance, partial_meta)>>,
                          PARTIAL_UPDATES_KEPT)),
                "last_partial_guidance", partial_guidance)),
        "audio_analysis", enrichment.audio_analysis),
        "ai_meta", partial_meta)

\* the event payload after a partial reasoning call that failed
StalePayload(payload, error) ==
    SetKey(SetKey(payload,
        "streaming", SetKey(payload["streaming"], "last_partial_error", error)),
        "ai_meta", partial_meta_of(error["ai_meta"]))

partial_succeeded(stream_id, chunk_count, ev, event, enrichment, partial_guidance, partial_meta) ==
    /\ events' = update_event_payload(ev, event.id,
                     PartialPayload(event.payload, chunk_count, enrichment,
                                    partial_guidance, partial_meta))
    /\ resp' = [op |-> "chunk", stream_id |-> stream_id, code |-> 200,
                partial_guidance |-> partial_guidance, ai_meta |-> partial_meta,
                stale |-> FALSE]

partial_failed(stream_id, ev, event, payload) ==
    /\ events' = update_event_payload(ev, event.id, payload)
    /\ resp' = [op |-> "chunk", stream_id |-> stream_id, code |-> 200,
                partial_guidance |-> Get(payload["streaming"], "last_partial_guidance", NoneD),
                ai_meta |-> payload["ai_meta"], stale |-> TRUE]

chunk_reasoned(stream_id, stream_state, streams, ev, event, made, reasoning) ==
    /\ calls' = <<made>>
    /\ IF reasoning.raised
       THEN /\ LIVE_STREAMS' = streams
            /\ events' = ev
            /\ resp' = NoResponse("chunk", stream_id)
       ELSE /\ LIVE_STREAMS' = streams
            /\ IF reasoning.ok
               THEN partial_succeeded(stream_id, stream_state.chunk_count, ev, event,
                        reasoning.result,
                        partial_guidance_of(reasoning.result.ai_guidance),
                        partial_meta_of(reasoning.result.ai_meta))
               ELSE partial_failed(stream_id, ev, event,
                        StalePayload(event.payload, reasoning.error))

chunk_partial_call(stream_id, stream_state, streams, ev, event, merged_audio, recent_events, priors, reasoning) ==
    chunk_reasoned(stream_id, stream_state, streams, ev, event,
        call_record("partial", event, recent_events, priors, merged_audio, reasoning),
        reasoning)

chunk_partial(stream_id, stream_state, streams, ev, event, merged_audio, recent_events, priors, r) ==
    chunk_partial_call(stream_id, stream_state, streams, ev, event, merged_audio,
        recent_events, priors,
        run_reasoning(event, recent_events, merged_audio, priors, env, r, clock))

chunk_counted(stream_id, stream_state, streams, ev, event, fs, r) ==
    /\ files' = fs
    /\ UNCHANGED <<clock, env, server, memory, event_seq, stream_seq, nfeedback>>
    /\ IF ~PartialDue(stream_state.chunk_count)
       THEN /\ LIVE_STREAMS' = streams
            /\ events' = ev
            /\ calls' = <<>>
            /\ resp' = [op |-> "chunk", stream_id |-> stream_id, code |-> 200,
                        status |-> "buffering",
                        chunks_received |-> stream_state.chunk_count,
                        next_partial_in_chunks |->
                            LIVE_PARTIAL_EVERY_CHUNKS
                            - (stream_state.chunk_count % LIVE_PARTIAL_EVERY_CHUNKS)]
       ELSE chunk_partial(stream_id, stream_state, streams, ev, event,
                fs[stream_state.file_path],
                recent_events_excluding(ev, event.id),
                load_reasoning_priors(memory, event.occurred_at), r)

chunk_stored(stream_id, chunk_bytes, stream_state, swept, event, r) ==
    chunk_counted(stream_id, stream_state,
        SetKey(swept.streams, stream_id, stream_state),
        update_event_payload(swept.events, event.id, event.payload),
        event,
        AppendFile(files, stream_state.file_path, chunk_bytes),
        r)

chunk_accepted(stream_id, chunk_bytes, stream_state, swept, event0, r) ==
    chunk_stored(stream_id, chunk_bytes, stream_state, swept,
        [event0 EXCEPT !.payload = ChunkedPayload(event0.payload, stream_state)], r)

chunk_after_sweep(form, swept, r) ==
    IF ~form.multipart
    THEN chunk_rejected(form.stream_id, 400, "Use multipart/form-data", swept.streams, swept.events)
    ELSE IF form.stream_id = 0
    THEN chunk_rejected(form.stream_id, 400, "stream_id is required", swept.streams, swept.events)
    ELSE IF ~HasKey(swept.streams, form.stream_id)
    THEN chunk_rejected(form.stream_id, 404, "Stream not found", swept.streams, swept.events)
    ELSE IF form.chunk = NoneD
    THEN chunk_rejected(form.stream_id, 400, "Audio chunk is required", swept.streams, swept.events)
    ELSE IF form.chunk.bytes > LIVE_CHUNK_MAX_BYTES
    THEN chunk_rejected(form.stream_id, 413, "Chunk too large", swept.streams, swept.events)
    ELSE IF get_event_by_id(swept.events, swept.streams[form.stream_id].event_id) = NoneD
    THEN chunk_rejected(form.stream_id, 404, "Event not found for stream",
                        PopKey(swept.streams, form.stream_id), swept.events)
    ELSE chunk_accepted(form.stream_id, form.chunk.bytes,
            ChunkedState(swept.streams[form.stream_id], form.chunk.bytes, form.mime_type, clock),
            swept,
            get_event_by_id(swept.events, swept.streams[form.stream_id].event_id), r)

\* POST /api/events/crying/live/chunk.  form is [multipart, stream_id (0 when
\* the field is missing), chunk (NoneD when no file part, else its size),
\* mime_type]; r is the provider's response to the partial request, if one
\* is sent
handle_live_chunk(form, r) ==
    chunk_after_sweep(form, cleanup_stale_live_streams(LIVE_STREAMS, events, clock), r)

finish_rejected(stream_id, code, message, streams, ev) ==
    /\ LIVE_STREAMS' = streams
    /\ events' = ev
    /\ resp' = [op |-> "finish", stream_id |-> stream_id, code |-> code, error |-> message]
    /\ calls' = <<>>
    /\ UNCHANGED <<clock, env, server, files, memory, event_seq, stream_seq, nfeedback>>

\* a finish that closes the event without recording why the final pass failed
FinishedPayloadSilent(payload, stream_state, success, error) ==
    SetKey(payload, "streaming",
        SetKey(SetKey(SetKey(SetKey(Get(payload, "streaming", EmptyDict),
            "status", "completed"),
            "ended_at", Timestamp),
            "chunks_received", stream_state.chunk_count),
            "total_bytes", stream_state.total_bytes))

\* the event payload that finish stores after the final pass
FinishedPayload(payload, stream_state, success, error) ==
    SetKey(payload, "streaming",
        IF success
        THEN SetKey(SetKey(SetKey(SetKey(Get(payload, "streaming", EmptyDict),
                "status", "completed"),
                "ended_at", Timestamp),
                "chunks_received", stream_state.chunk_count),
                "total_bytes", stream_state.total_bytes)
        ELSE SetKey(SetKey(SetKey(SetKey(SetKey(Get(payload, "streaming", EmptyDict),
                "status", "completed"),
                "ended_at", Timestamp),
                "chunks_received", stream_state.chunk_count),
                "total_bytes", stream_state.total_bytes),
                "final_error", error))

\* a finish that leaves the session in the registry
StreamsKept(streams, stream_id) == streams

\* LIVE_STREAMS.pop(stream_id, None)
StreamsAfterFinish(streams, stream_id) == PopKey(streams, stream_id)

finish_stored(stream_id, swept, final, payload) ==
    /\ events' = update_event_payload(final.events, final.event.id, payload)
    /\ LIVE_STREAMS' = StreamsAfterFinish(swept.streams, stream_id)
    /\ resp' = [op |-> "finish", code |-> 200, stream_id |-> stream_id,
                status |-> "completed",
                event |-> [final.event EXCEPT !.payload = payload]]

finish_reasoned(stream_id, stream_state, swept, final) ==
    /\ calls' = final.calls
    /\ UNCHANGED <<clock, env, server, files, memory, event_seq, stream_seq, nfeedback>>
    /\ IF final.raised
       THEN /\ events' = swept.events
            /\ LIVE_STREAMS' = swept.streams
            /\ resp' = NoResponse("finish", stream_id)
       ELSE finish_stored(stream_id, swept, final,
                FinishedPayload(final.event.payload, stream_state, final.success, final.error))

finish_after_sweep(body, swept, r1, r2) ==
    IF body = NoneD
    THEN finish_rejected(0, 400, "Invalid JSON", swept.streams, swept.events)
    ELSE IF body.stream_id = 0
    THEN finish_rejected(0, 400, "stream_id is required", swept.streams, swept.events)
    ELSE IF ~HasKey(swept.streams, body.stream_id)
    THEN finish_rejected(body.stream_id, 404, "Stream not found", swept.streams, swept.events)
    ELSE IF get_event_by_id(swept.events, swept.streams[body.stream_id].event_id) = NoneD
    THEN finish_rejected(body.stream_id, 404, "Event not found for stream",
                         PopKey(swept.streams, body.stream_id), swept.events)
    ELSE finish_reasoned(body.stream_id, swept.streams[body.stream_id], swept,
            apply_reasoning_to_event(swept.events, memory, env, clock,
                get_event_by_id(swept.events, swept.streams[body.stream_id].event_id),
                Get(files, swept.streams[body.stream_id].file_path, <<>>),
                swept.streams[body.stream_id].assigned_variant, r1, r2))

\* POST /api/events/crying/live/finish.  body is NoneD for invalid JSON, else
\* [stream_id] (0 when the field is missing); r1 and r2 are the provider's
\* responses to the treatment and to the control request, if they are sent
handle_live_finish(body, r1, r2) ==
    finish_after_sweep(body, cleanup_stale_live_streams(LIVE_STREAMS, events, clock), r1, r2)

\* ------------------------------------------------------------------------
\* Single-shot and manual events, feedback (src/backend/app.py)
\* ------------------------------------------------------------------------
MAX_AUDIO_BYTES == 10 * 1024 * 1024

crying_rejected(code, message) ==
    /\ resp' = [op |-> "crying", code |-> code, error |-> message]
    /\ calls' = <<>>
    /\ UNCHANGED <<clock, env, server, events, LIVE_STREAMS, files, memory, event_seq,
                   stream_seq, nfeedback>>

new_crying_event(event_id, audio) ==
    [id |-> event_id, type |-> "crying", occurred_at |-> iso_now, category |-> "crying",
     created_at |-> Timestamp,
     payload |-> IF audio > 0
                 THEN [notice |-> compose_notice(FALSE, FALSE),
                       audio_analysis |-> stub_gemini_result, ai |-> stub_gemini_result,
                       audio_mime_type |-> "audio/wav"]
                 ELSE [notice |-> compose_notice(FALSE, FALSE),
                       audio_analysis |-> stub_gemini_result, ai |-> stub_gemini_result]]

crying_reasoned(event_id, final) ==
    /\ events' = final.events
    /\ calls' = final.calls
    /\ resp' = IF final.raised THEN NoResponse("crying", 0)
               ELSE [op |-> "crying", code |-> 200, event |-> final.event]
    /\ event_seq' = event_id
    /\ UNCHANGED <<clock, env, server, LIVE_STREAMS, files, memory, stream_seq, nfeedback>>

crying_inserted(body, event, r1, r2) ==
    crying_reasoned(event.id,
        apply_reasoning_to_event(insert_event(events, event), memory, env, clock, event,
            IF body.audio > 0 THEN <<body.audio>> ELSE <<>>,
            resolve_ab_variant(body.ab_variant, event.id), r1, r2))

\* POST /api/events/crying.  body is NoneD for invalid JSON, else
\* [ab_variant, audio (the size of the uploaded file, 0 when there is none)]
handle_post_crying(body, r1, r2) ==
    IF body = NoneD THEN crying_rejected(400, "Invalid JSON")
    ELSE IF body.audio > MAX_AUDIO_BYTES THEN crying_rejected(413, "Audio file too large")
    ELSE crying_inserted(body, new_crying_event(new_event_id, body.audio), r1, r2)

\* body.get("payload", {})
manual_payload(body) == IF "payload" \in DOMAIN body THEN body.payload ELSE EmptyDict

new_manual_event_with(event_id, category, payload) ==
    [id |-> event_id, type |-> "manual", occurred_at |-> iso_now,
     category |-> category, payload |-> payload, created_at |-> Timestamp]

new_manual_event(event_id, category) == new_manual_event_with(event_id, category, EmptyDict)

\* POST /api/events/manual.  body is [category] or [category, payload]
handle_post_manual(body) ==
    /\ events' = insert_event(events, new_manual_event_with(new_event_id, body.category, manual_payload(body)))
    /\ event_seq' = new_event_id
    /\ resp' = [op |-> "manual", code |-> 200,
                event |-> new_manual_event_with(new_event_id, body.category, manual_payload(body))]
    /\ calls' = <<>>
    /\ UNCHANGED <<clock, env, server, LIVE_STREAMS, files, memory, stream_seq, nfeedback>>

feedback_payload(payload, feedback, update) ==
    IF update # NoneD
    THEN SetKey(SetKey(payload, "user_feedback", feedback), "learning_update", update)
    ELSE SetKey(payload, "user_feedback", feedback)

feedback_raised ==
    /\ resp' = NoResponse("feedback", 0)
    /\ UNCHANGED <<events, memory>>

\* a handler that learns from the first feedback of an event only
feedback_learned_once(body, event, learned) ==
    /\ memory' = IF HasKey(event.payload, "learning_update") THEN memory ELSE learned.mem
    /\ events' = update_event_payload(events, body.event_id,
                     feedback_payload(event.payload, body.feedback, learned.update))
    /\ resp' = [op |-> "feedback", code |-> 200,
                event |-> [event EXCEPT !.payload =
                              feedback_payload(event.payload, body.feedback, learned.update)],
                learning |-> learned.update]

feedback_learned(body, event, learned) ==
    /\ memory' = learned.mem
    /\ events' = update_event_payload(events, body.event_id,
                     feedback_payload(event.payload, body.feedback, learned.update))
    /\ resp' = [op |-> "feedback", code |-> 200,
                event |-> [event EXCEPT !.payload =
                              feedback_payload(event.payload, body.feedback, learned.update)],
                learning |-> learned.update]

\* the feedback handler on the memory file content mem
feedback_from(body, event, mem) ==
    /\ nfeedback' = nfeedback + 1
    /\ calls' = <<>>
    /\ UNCHANGED <<clock, env, server, LIVE_STREAMS, files, event_seq, stream_seq>>
    /\ IF body.event_id = 0 \/ body.feedback = NoneD
       THEN /\ resp' = [op |-> "feedback", code |-> 400, error |-> "event_id and feedback required"]
            /\ UNCHANGED <<events, memory>>
       ELSE IF event = NoneD
       THEN /\ resp' = [op |-> "feedback", code |-> 404, error |-> "Event not found"]
            /\ UNCHANGED <<events, memory>>
       ELSE IF update_reasoning_priors(mem, event, body.feedback).raised
       THEN feedback_raised
       ELSE feedback_learned(body, event, update_reasoning_priors(mem, event, body.feedback))

feedback_for(body, event) == feedback_from(body, event, memory)

\* POST /api/events/feedback.  body is [event_id, feedback]
handle_post_feedback(body) == feedback_for(body, get_event_by_id(events, body.event_id))

\* ------------------------------------------------------------------------
\* Requests and the next-state relation
\* ------------------------------------------------------------------------
StreamIds == 1 .. MaxStreams
EventIds == 1 .. MaxEvents

StartBodies(variants) == [ab_variant : variants, audio_mime_type : {None}]
ChunkForms(sizes) == [multipart : {TRUE}, stream_id : StreamIds,
                      chunk : {NoneD} \cup [bytes : sizes], mime_type : {None}]
FinishBodies == [stream_id : StreamIds]
CryingBodies(variants) == [ab_variant : variants, audio : {0, 1}]
ManualBodies == [category : Categories]
FeedbackBodies(helpful) == [event_id : EventIds, feedback : [helpful : helpful]]

\* the chunks appended to all live buffers so far
ChunksStored == SumOver([p \in DOMAIN files |-> Len(files[p])], DOMAIN files)

\* the live endpoints, two streams side by side
LiveStart ==
    \E body \in StartBodies({"control"}) :
        /\ stream_seq < MaxStreams
        /\ handle_live_start(body)
LiveChunk ==
    \E form \in ChunkForms({LIVE_CHUNK_MAX_BYTES, LIVE_CHUNK_MAX_BYTES + 1}),
       r \in ResponsesFor(env, {RespFull, RespHttpError, RespListLabel}) :
        /\ ChunksStored < MaxChunks
        /\ handle_live_chunk(form, r)
LiveFinish ==
    \E body \in FinishBodies,
       r1, r2 \in ResponsesFor(env, {RespFull, RespHttpError, RespListLabel}) :
        handle_live_finish(body, r1, r2)

NextLive == Tick \/ LiveStart \/ LiveChunk \/ LiveFinish

SpecLive == Init /\ [][NextLive]_vars

\* the live endpoints and feedback on the events of the streams
LiveFeedback ==
    \E body \in FeedbackBodies({"True"}) :
        /\ nfeedback < MaxFeedback
        /\ body.event_id \in DOMAIN events
        /\ handle_post_feedback(body)

NextTerminal == NextLive \/ LiveFeedback

SpecTerminal == Init /\ [][NextTerminal]_vars

\* one stream through two rounds of the partial cadence, then finished or
\* reaped, with feedback on its event
CadenceStart ==
    \E body \in StartBodies({None}) :
        /\ stream_seq < MaxCadenceStreams
        /\ handle_live_start(body)
CadenceChunk ==
    \E form \in ChunkForms({1, LIVE_CHUNK_MAX_BYTES + 1}),
       r \in ResponsesFor(env, {RespFull, RespHttpError, RespListLabel}) :
        /\ ChunksStored < MaxCadenceChunks
        /\ handle_live_chunk(form, r)
CadenceFinish ==
    \E body \in FinishBodies,
       r1, r2 \in ResponsesFor(env, {RespFull, RespHttpError, RespListLabel}) :
        handle_live_finish(body, r1, r2)

CadenceFeedback ==
    \E body \in FeedbackBodies({"True", "maybe"}) :
        /\ nfeedback < MaxFeedback
        /\ handle_post_feedback(body)

NextCadence == Tick \/ CadenceStart \/ CadenceChunk \/ CadenceFinish \/ CadenceFeedback

SpecCadence == Init /\ [][NextCadence]_vars

\* single-shot and manual events next to a live stream, every provider
\* response
FinalCrying ==
    \E body \in CryingBodies(Variants), r1, r2 \in ResponsesFor(env, ProviderResponses) :
        /\ event_seq < MaxEvents
        /\ handle_post_crying(body, r1, r2)
FinalManual ==
    \E body \in ManualBodies :
        /\ event_seq < MaxEvents
        /\ handle_post_manual(body)
FinalStart ==
    \E body \in StartBodies(Variants) :
        /\ event_seq < MaxEvents
        /\ stream_seq < MaxCadenceStreams
        /\ handle_live_start(body)
FinalFinish ==
    \E body \in FinishBodies, r1, r2 \in ResponsesFor(env, ProviderResponses) :
        handle_live_finish(body, r1, r2)

NextFinal == FinalCrying \/ FinalManual \/ FinalStart \/ FinalFinish

SpecFinal == Init /\ [][NextFinal]_vars

\* single-shot events with manual context and learned priors
DualCrying ==
    \E body \in CryingBodies({None, "control"}),
       r1, r2 \in ResponsesFor(env, {RespFull, RespGuidanceOnly, RespHttpError, RespListLabel}) :
        /\ event_seq < MaxEvents
        /\ handle_post_crying(body, r1, r2)
DualManual ==
    \E body \in ManualBodies :
        /\ event_seq < MaxEvents
        /\ handle_post_manual(body)
DualFeedback ==
    \E body \in FeedbackBodies({"True", "False"}) :
        /\ nfeedback < MaxFeedback
        /\ handle_post_feedback(body)

NextDual == Tick \/ DualCrying \/ DualManual \/ DualFeedback

SpecDual == Init /\ [][NextDual]_vars

\* variant assignment on its own: every requested value, both settings of
\* AB_AUTO_SPLIT, every tabulated id and every leading digest byte
RequestedVariants == {None, "treatment", "control", "holdout", ""}

AssignVariant ==
    \E auto_split \in BOOLEAN, requested_variant \in RequestedVariants,
       event_id \in DOMAIN MD5_LEADING_BYTE :
        /\ resp' = [op |-> "assign", auto_split |-> auto_split,
                    requested_variant |-> requested_variant, event_id |-> event_id,
                    variant |-> resolve_ab_variant_when(auto_split, requested_variant, event_id)]
        /\ UNCHANGED <<clock, env, server, events, LIVE_STREAMS, files, memory, event_seq,
                       stream_seq, nfeedback, calls>>
AssignByte ==
    \E byte \in 0 .. 255 :
        /\ resp' = [op |-> "digest", byte |-> byte, variant |-> variant_of_byte(byte)]
        /\ UNCHANGED <<clock, env, server, events, LIVE_STREAMS, files, memory, event_seq,
                       stream_seq, nfeedback, calls>>

NextAssign == AssignVariant \/ AssignByte

SpecAssign == Init /\ [][NextAssign]_vars

\* The ids are the clock reading formatted to the microsecond
\* (strftime("%Y%m%d_%H%M%S_%f")): the reading of a request is the one the
\* previous id of its kind was made from when the clock has not moved on
\* between the two, a later one otherwise.
StampedIds(last) == {id \in {last, last + 1} : id >= 1}

\* live sessions started from clock readings
StampStart ==
    \E body \in StartBodies({None, "control"}),
       stream_id \in StampedIds(stream_seq), event_id \in StampedIds(event_seq) :
        /\ stream_id <= MaxStreams
        /\ event_id <= MaxEvents
        /\ start_with_ids(body, cleanup_stale_live_streams(LIVE_STREAMS, events, clock),
                          stream_id, event_id)
StampChunk ==
    \E form \in ChunkForms({1}), r \in ResponsesFor(env, {RespHttpError}) :
        /\ ChunksStored < MaxChunks
        /\ handle_live_chunk(form, r)

NextStamp == StampStart \/ StampChunk

SpecStamp == Init /\ [][NextStamp]_vars

\* the same sessions, finished as well
StampFinish ==
    \E body \in FinishBodies, r1, r2 \in ResponsesFor(env, {RespHttpError}) :
        handle_live_finish(body, r1, r2)

NextStampFinish == StampStart \/ StampFinish

SpecStampFinish == Init /\ [][NextStampFinish]_vars

\* live sessions whose start body carries a payload, left to the sweep
StartPayloads ==
    {EmptyDict,
     [ai_guidance |-> GuidanceHunger],
     [ab_test |-> [assigned_variant |-> "control", shown_variant |-> "control"]]}

SweepStart ==
    \E body \in [ab_variant : {None}, audio_mime_type : {None}, payload : StartPayloads] :
        /\ stream_seq < MaxStreams
        /\ handle_live_start(body)
SweepChunk ==
    \E form \in ChunkForms({1}), r \in ResponsesFor(env, {RespFull, RespHttpError}) :
        /\ ChunksStored < MaxChunks
        /\ handle_live_chunk(form, r)
SweepFinish ==
    \E body \in FinishBodies, r1, r2 \in ResponsesFor(env, {RespFull, RespHttpError}) :
        handle_live_finish(body, r1, r2)

NextSweep == Tick \/ SweepStart \/ SweepChunk \/ SweepFinish

SpecSweep == Init /\ [][NextSweep]_vars

\* run_reasoning on its own: every provider response, with and without
\* audio, priors, an analysis on the event and recent events
ReasoningEvents ==
    {[id |-> 1, type |-> "crying", occurred_at |-> iso_now, category |-> "crying",
      created_at |-> Timestamp, payload |-> payload] :
        payload \in {EmptyDict, [audio_analysis |-> stub_gemini_result]}}

Reason ==
    \E current_event \in ReasoningEvents,
       recent_events \in {{}, {new_manual_event(2, "feeding")}},
       audio_bytes \in {<<>>, <<1>>},
       learned_priors \in {EmptyDict, DEFAULT_PRIORS},
       response \in ResponsesFor(env, ProviderResponses \cup MalformedResponses) :
        /\ resp' = [op |-> "reasoning", response |-> response,
                    payload |-> current_event.payload,
                    audio |-> HasBytes(audio_bytes), learned_priors |-> learned_priors,
                    recent |-> {x.id : x \in recent_events},
                    returned |-> run_reasoning(current_event, recent_events, audio_bytes,
                                               learned_priors, env, response, clock)]
        /\ UNCHANGED <<clock, env, server, events, LIVE_STREAMS, files, memory, event_seq,
                       stream_seq, nfeedback, calls>>

NextReasoning == Reason

SpecReasoning == Init /\ [][NextReasoning]_vars

\* _normalize_inference on its own, applied once to each mapping.  A label of
\* the mapping is absent or carries a number: below 0, 0, small shares that
\* do not divide evenly, or above 1.
InferenceNumbers == {0 - 2000, 0, 1, 4, 12000}

InferenceMappings ==
    UNION {[labels -> InferenceNumbers] : labels \in SUBSET CAUSE_LABELS}

Normalize ==
    \E inference \in InferenceMappings :
        /\ resp.op = "none"
        /\ resp' = [op |-> "normalize", inference |-> inference,
                    valid |-> validate_audio_analysis([inference |-> inference]) = "",
                    normalized |-> normalize_inference(inference)]
        /\ UNCHANGED <<clock, env, server, events, LIVE_STREAMS, files, memory, event_seq,
                       stream_seq, nfeedback, calls>>

NextNormalize == Normalize

SpecNormalize == Init /\ [][NextNormalize]_vars

\* ------------------------------------------------------------------------
\* The prior store under a run of feedback: update_reasoning_priors applied
\* to the stored memory, once per feedback, on events of either time bucket.
\* ------------------------------------------------------------------------
\* an analysed crying event as update_reasoning_priors reads it
GuidedEvent(label, occurred_at) == [occurred_at |-> occurred_at, payload |-> [ai_guidance |-> [most_likely_cause |-> [label |-> label]]]]

\* one call of update_reasoning_priors on the stored memory
apply_update(label, helpful, occurred_at) ==
    /\ memory' = update_reasoning_priors(memory, GuidedEvent(label, occurred_at), [helpful |-> helpful]).mem
    /\ resp' = [op |-> "update", label |-> label, helpful |-> helpful,
                occurred_at |-> occurred_at,
                had_bucket |-> /\ HasKey(memory, "reasoning_priors_buckets")
                               /\ HasKey(memory["reasoning_priors_buckets"], time_bucket(occurred_at)),
                loaded |-> load_reasoning_priors(memory, occurred_at),
                result |-> update_reasoning_priors(memory, GuidedEvent(label, occurred_at), [helpful |-> helpful])]
    /\ UNCHANGED <<clock, env, server, events, LIVE_STREAMS, files, event_seq, stream_seq, calls>>

UpdateLabels == {"hunger", "discomfort"}

\* a run of feedback of any length on the events of one label at 12:00 UTC
PriorUpdate ==
    \E label \in UpdateLabels, helpful \in {"True", "False"} :
        /\ resp.op = "update" => resp.label = label
        /\ apply_update(label, helpful, [t |-> 12 * 3600, off |-> 0])
        /\ UNCHANGED nfeedback

NextPriors == PriorUpdate

SpecPriors == Init /\ [][NextPriors]_vars

\* a few feedbacks on events of both time buckets: 03:00 and 12:00 UTC
MaxBucketUpdates == 3

UpdateHours == {3, 12}

BucketUpdate ==
    \E label \in CAUSE_LABELS, helpful \in {"True", "False"}, hour \in UpdateHours :
        /\ nfeedback < MaxBucketUpdates
        /\ apply_update(label, helpful, [t |-> hour * 3600, off |-> 0])
        /\ nfeedback' = nfeedback + 1

NextBuckets == BucketUpdate

SpecBuckets == Init /\ [][NextBuckets]_vars

\* ------------------------------------------------------------------------
\* Feedback that teaches nothing: events logged with a payload of the
\* client's, and feedback of every shape the endpoint reads.
\* ------------------------------------------------------------------------
GuidanceOf(label) == [ai_guidance |-> [most_likely_cause |-> [label |-> label]]]

\* payloads of POST /api/events/manual: none, no guidance, guidance without a
\* cause, a label that is not a cause label, a label that is a JSON array,
\* and a recognized label
LoggedPayloads == {EmptyDict, [ai_guidance |-> EmptyDict], GuidanceOf("teething"), GuidanceOf("[hunger, discomfort]"), GuidanceOf("hunger")}

\* feedback: not a mapping, no helpful, helpful not a boolean, helpful a boolean
FeedbackShapes == {NoneD, [note |-> "thanks"], [helpful |-> "maybe"], [helpful |-> "True"]}

NoOpBodies == [event_id : EventIds, feedback : FeedbackShapes]

MaxNoOpFeedback == 2

NoOpManual ==
    \E payload \in LoggedPayloads :
        /\ event_seq < MaxEvents
        /\ handle_post_manual([category |-> "feeding", payload |-> payload])

NoOpFeedback ==
    \E body \in NoOpBodies :
        /\ nfeedback < MaxNoOpFeedback
        /\ handle_post_feedback(body)

NextNoOp == NoOpManual \/ NoOpFeedback

SpecNoOp == Init /\ [][NextNoOp]_vars

\* ------------------------------------------------------------------------
\* The time bucket of an occurrence time, over every half hour of a day
\* written with an offset of -05:00, +00:00, +05:30 or +09:00, and None.
\* ------------------------------------------------------------------------
WrittenOffsets == {0 - 18000, 0, 19800, 32400}

HalfHours == {h * 3600 + m : h \in 0 .. 23, m \in {0, 1800}}

OccurrenceTimes == {NoneD} \cup [t : HalfHours, off : WrittenOffsets]

TimeBucket ==
    \E occurred_at \in OccurrenceTimes :
        /\ resp.op = "none"
        /\ resp' = [op |-> "bucket", occurred_at |-> occurred_at, bucket |-> time_bucket(occurred_at)]
        /\ UNCHANGED <<clock, env, server, events, LIVE_STREAMS, files, memory, event_seq,
                       stream_seq, nfeedback, calls>>

NextBucket == TimeBucket

SpecBucket == Init /\ [][NextBucket]_vars

\* ------------------------------------------------------------------------
\* load_reasoning_priors over memory files of every shape: written by
\* update_reasoning_priors, written by an older version (flat snapshot only),
\* and edited by hand.
\* ------------------------------------------------------------------------
SkewedPriors == [l \in CAUSE_LABELS |-> IF l = "hunger" THEN 2105 ELSE 2632]

\* what a memory file can hold as one distribution: two that _normalize wrote,
\* one with labels missing, one with a negative value, one of zeros, and a
\* value that is not a mapping
StoredPriors == {DEFAULT_PRIORS, SkewedPriors, [hunger |-> 7000], [l \in CAUSE_LABELS |-> IF l = "hunger" THEN 0 - 1000 ELSE 3000], [l \in CAUSE_LABELS |-> 0], NoneD}

StoredBuckets == {EmptyDict, NoneD} \cup {[day |-> d] : d \in StoredPriors} \cup {[night |-> d] : d \in StoredPriors} \cup {[day |-> SkewedPriors, night |-> d] : d \in StoredPriors}

MemoryFiles == {EmptyDict, NotAnObject} \cup {[reasoning_priors |-> d] : d \in StoredPriors} \cup {[reasoning_priors_buckets |-> b, reasoning_priors |-> SkewedPriors] : b \in StoredBuckets}

LoadPriors ==
    \E file \in MemoryFiles, hour \in UpdateHours :
        /\ resp.op = "none"
        /\ resp' = [op |-> "load", file |-> file, bucket |-> time_bucket([t |-> hour * 3600, off |-> 0]),
                    raised |-> load_raises(file),
                    loaded |-> IF load_raises(file) THEN NoneD
                               ELSE load_reasoning_priors(file, [t |-> hour * 3600, off |-> 0])]
        /\ UNCHANGED <<clock, env, server, events, LIVE_STREAMS, files, memory, event_seq,
                       stream_seq, nfeedback, calls>>

NextLoad == LoadPriors

SpecLoad == Init /\ [][NextLoad]_vars

\* ------------------------------------------------------------------------
\* GET /api/metrics over stores of crying events as they are once analysed
\* and, for some, given feedback.
\* ------------------------------------------------------------------------
MaxScored == 3

\* feedback as POST /api/events/feedback stores it; NoneD for an event that
\* has none
StoredFeedback == {NoneD, [helpful |-> "maybe"], [helpful |-> "True"], [helpful |-> "True", resolved_in_minutes |-> 10], [helpful |-> "False", resolved_in_minutes |-> 25]}

\* the variant and guidance fields that _apply_reasoning_to_event leaves: a
\* shown arm with or without an uncertainty note, or a failed analysis with
\* no guidance and no arm shown
AnalysedPayloads ==
    {[ab_test |-> [assigned_variant |-> v, shown_variant |-> v], ai_guidance |-> g] :
        v \in {"treatment", "control"},
        g \in {[confidence_level |-> "high"],
               [confidence_level |-> "high", uncertainty_note |-> "Limited recent care data available"]}}
    \cup {[ab_test |-> [assigned_variant |-> "treatment", shown_variant |-> None]]}

with_feedback(payload, feedback) == IF feedback = NoneD THEN payload ELSE SetKey(payload, "user_feedback", feedback)

analysed_event(event_id, payload, feedback) ==
    [id |-> event_id, type |-> "crying", occurred_at |-> iso_now, category |-> "crying",
     payload |-> with_feedback(payload, feedback), created_at |-> Timestamp]

\* a crying event, analysed and possibly given feedback, enters the store
MetricsStore ==
    \E payload \in AnalysedPayloads, feedback \in StoredFeedback :
        /\ event_seq < MaxScored
        /\ events' = insert_event(events, analysed_event(new_event_id, payload, feedback))
        /\ event_seq' = new_event_id
        /\ resp' = [op |-> "stored", code |-> 200]
        /\ UNCHANGED <<clock, env, server, LIVE_STREAMS, files, memory, stream_seq, nfeedback, calls>>

\* GET /api/metrics
handle_get_metrics ==
    /\ resp' = [op |-> "metrics", code |-> 200, metrics |-> build_metrics(events)]
    /\ UNCHANGED <<clock, env, server, events, LIVE_STREAMS, files, memory, event_seq, stream_seq, nfeedback, calls>>

MetricsGet == resp.op # "metrics" /\ handle_get_metrics

NextMetrics == MetricsStore \/ MetricsGet

SpecMetrics == Init /\ [][NextMetrics]_vars

\* ------------------------------------------------------------------------
\* Every operation that writes an event: one live stream through its partial
\* cadence, finished or reaped, feedback, single-shot crying events, and
\* events logged by hand under any category the client names.
\* ------------------------------------------------------------------------
LoggedCategories == {"feeding", "crying"}

NoticeManual ==
    \E category \in LoggedCategories :
        /\ event_seq < MaxEvents
        /\ handle_post_manual([category |-> category])

NoticeCrying ==
    \E body \in CryingBodies({None}), r1, r2 \in ResponsesFor(env, {RespFull, RespHttpError}) :
        /\ event_seq < MaxEvents
        /\ handle_post_crying(body, r1, r2)

NoticeStart ==
    \E body \in StartBodies({None}) :
        /\ event_seq < MaxEvents
        /\ stream_seq < MaxCadenceStreams
        /\ handle_live_start(body)

NoticeChunk ==
    \E form \in ChunkForms({1}), r \in ResponsesFor(env, {RespFull, RespHttpError}) :
        /\ ChunksStored < LIVE_PARTIAL_EVERY_CHUNKS
        /\ handle_live_chunk(form, r)

NoticeFinish ==
    \E body \in FinishBodies, r1, r2 \in ResponsesFor(env, {RespFull, RespHttpError}) :
        handle_live_finish(body, r1, r2)

NoticeFeedback ==
    \E body \in FeedbackBodies({"True"}) :
        /\ nfeedback < MaxFeedback
        /\ body.event_id \in DOMAIN events
        /\ handle_post_feedback(body)

NextNotice == Tick \/ NoticeStart \/ NoticeChunk \/ NoticeFinish \/ NoticeFeedback \/ NoticeManual \/ NoticeCrying

SpecNotice == Init /\ [][NextNotice]_vars

\* ------------------------------------------------------------------------
\* Crying events half an hour apart, or closer: up to four in two hours, loud
\* or calm, analysed or not.
\* ------------------------------------------------------------------------
MaxSafetyEvents == 4
MaxSafetyTicks == 3

\* half of the lookback window, in seconds
HalfWindow == 30 * HIGH_INTENSITY_WINDOW_MIN

SafetyTick ==
    /\ clock < MaxSafetyTicks * HalfWindow
    /\ clock' = clock + HalfWindow
    /\ UNCHANGED <<env, server, events, LIVE_STREAMS, files, memory, event_seq, stream_seq,
                   nfeedback, resp, calls>>

SafetyCrying ==
    \E body \in CryingBodies({None}), r1 \in ResponsesFor(env, {RespFull, RespCalm, RespHttpError, RespListLabel}) :
        /\ event_seq < MaxSafetyEvents
        /\ handle_post_crying(body, r1, RespFull)

NextSafety == SafetyTick \/ SafetyCrying

SpecSafety == Init /\ [][NextSafety]_vars

\* run_reasoning on provider outputs of every confidence around the tiers,
\* with priors that have, and have not, a probability for the winning label
BlendConfidences == {0, 4499, 4500, 5356, 5357, 6428, 6429, 7499, 7500, 9642, 9643, Scale}
BlendPriors ==
    {EmptyDict, DEFAULT_PRIORS, [hunger |-> Scale], [hunger |-> 0], [discomfort |-> 5000],
     [hunger |-> 15000]}

\* the guidance of the provider: a label the priors know or do not know, and
\* possibly a prior_weight copied from the recent guidance of the prompt
ProvidedGuidance(label, confidence, echoed) ==
    LET guidance == [GuidanceHunger EXCEPT !.most_likely_cause.label = label,
                                           !.most_likely_cause.confidence = confidence]
    IN  IF echoed
        THEN SetKey(guidance, "prior_weight",
                    [label |-> label, prior |-> 2500,
                     strategy |-> "0.7_model + 0.3_feedback_prior"])
        ELSE guidance

Blend ==
    \E label \in {"hunger", "pain"}, confidence \in BlendConfidences, echoed \in BOOLEAN,
       learned_priors \in BlendPriors, current_event \in ReasoningEvents :
        /\ current_event.payload = EmptyDict
        /\ resp' = [op |-> "blended", learned_priors |-> learned_priors,
                    guidance |-> ProvidedGuidance(label, confidence, echoed),
                    returned |-> run_reasoning(current_event, {}, <<1>>, learned_priors, env,
                                     RespWith(AnalysisLoud, ProvidedGuidance(label, confidence, echoed)),
                                     clock)]
        /\ UNCHANGED <<clock, env, server, events, LIVE_STREAMS, files, memory, event_seq,
                       stream_seq, nfeedback, calls>>

NextBlend == Blend

SpecBlend == Init /\ [][NextBlend]_vars

\* single-shot events shown either arm, the provider answering either call
\* with a guidance of its own that has a prior_weight, then feedback
RespEchoedPrior == RespWith(AnalysisLoud, ProvidedGuidance("hunger", 9000, TRUE))

ControlCrying ==
    \E body \in CryingBodies({None, "control"}),
       r1, r2 \in ResponsesFor(env, {RespFull, RespEchoedPrior, RespHttpError}) :
        /\ event_seq < MaxEvents
        /\ handle_post_crying(body, r1, r2)
ControlManual ==
    \E body \in ManualBodies :
        /\ event_seq < MaxEvents
        /\ handle_post_manual(body)
ControlFeedback ==
    \E body \in FeedbackBodies({"True", "False"}) :
        /\ nfeedback < MaxFeedback
        /\ handle_post_feedback(body)

NextControl == ControlCrying \/ ControlManual \/ ControlFeedback

SpecControl == Init /\ [][NextControl]_vars

\* feedback submitted again and again for the same events
MaxRepeats == 3

RepeatCrying ==
    \E body \in CryingBodies({None}), r1, r2 \in ResponsesFor(env, {RespFull, RespGuidanceOnly}) :
        /\ body.audio = 0
        /\ event_seq < MaxEvents
        /\ handle_post_crying(body, r1, r2)
RepeatFeedback ==
    \E body \in FeedbackBodies(HelpfulValues) :
        /\ nfeedback < MaxRepeats
        /\ handle_post_feedback(body)

NextRepeat == RepeatCrying \/ RepeatFeedback

SpecRepeat == Init /\ [][NextRepeat]_vars

\* run_reasoning invoked next to a sleep log: the provider answering, failing
\* or timing out, or not configured
SleepLogs ==
    {{}} \cup {{[id |-> 2, type |-> "manual", occurred_at |-> iso_now, category |-> "sleep",
                 created_at |-> Timestamp, payload |-> payload]} :
                    payload \in {EmptyDict, [duration_min |-> [minutes |-> 30]], [duration_min |-> Infinity]}}

Invoke ==
    \E current_event \in ReasoningEvents, recent_events \in SleepLogs,
       audio_bytes \in {<<>>, <<1>>}, learned_priors \in {EmptyDict, DEFAULT_PRIORS},
       response \in ResponsesFor(env, {RespFull, RespNotJson, RespListLabel, RespHttpError, RespTimeout}) :
        /\ resp' = [op |-> "invoked", response |-> response, recent_events |-> recent_events,
                    payload |-> current_event.payload, audio |-> HasBytes(audio_bytes),
                    learned_priors |-> learned_priors,
                    returned |-> run_reasoning(current_event, recent_events, audio_bytes,
                                               learned_priors, env, response, clock)]
        /\ UNCHANGED <<clock, env, server, events, LIVE_STREAMS, files, memory, event_seq,
                       stream_seq, nfeedback, calls>>

NextRequests == Invoke

SpecRequests == Init /\ [][NextRequests]_vars

\* ------------------------------------------------------------------------
\* The HTTP server (src/backend/app.py, run): http.server.HTTPServer, whose
\* serve_forever loop accepts one connection, runs the handler to its end
\* and only then accepts the next; connections made meanwhile wait in the
\* listen queue in their order of arrival
\* ------------------------------------------------------------------------
Clients == {1, 2}
MaxServedStreams == 1
MaxServedChunks == 3
MaxServedEvents == 1
MaxServedFeedback == 2
ServedResponses == {RespFull, RespHttpError}

\* what the handlers share: the registry, the events table, the buffer files,
\* the memory file
Shared == [LIVE_STREAMS |-> LIVE_STREAMS, events |-> events, files |-> files, memory |-> memory]

Sent(client, path, body) == [client |-> client, path |-> path, body |-> body]

\* the thread is inside a handler: a request accepted and not yet answered
InHand == resp.op = "accepted"

\* the requests sent and not yet answered, the oldest first
InFlight == (IF InHand THEN <<Sent(server.request.client, server.request.path, server.request.body)>> ELSE <<>>) \o [i \in 1 .. Len(server.backlog) |-> Sent(server.backlog[i].client, server.backlog[i].path, server.backlog[i].body)]

Waiting(path) == Cardinality({i \in 1 .. Len(InFlight) : InFlight[i].path = path})

\* a client that waits for an answer sends nothing else
Idle(client) == \A i \in 1 .. Len(InFlight) : InFlight[i].client # client

\* a connection reaches the listen socket: the request, what the shared
\* state was when it arrived, and the requests that were in flight then
connect(client, path, body) ==
    /\ Idle(client)
    /\ server' = [server EXCEPT !.backlog =
                     Append(@, [client |-> client, path |-> path, body |-> body,
                                seen |-> Shared, ahead |-> InFlight])]
    /\ UNCHANGED <<clock, env, events, LIVE_STREAMS, files, memory, event_seq, stream_seq,
                   nfeedback, resp, calls>>

\* a server that started each handler on its own thread when the connection
\* arrived would let it work on the state of that moment
process_request_thread(seen, current) == seen

\* HTTPServer.process_request: the handler runs in the serving loop, on the
\* state the handlers before it have left
process_request(seen, current) == current

\* serve_forever takes the oldest waiting connection once the handler before
\* it has returned
Accept ==
    /\ ~InHand
    /\ server.backlog # <<>>
    /\ server' = [backlog |-> Tail(server.backlog), request |-> Head(server.backlog),
                  answered |-> resp]
    /\ resp' = [op |-> "accepted"]
    /\ UNCHANGED <<clock, env, events, LIVE_STREAMS, files, memory, event_seq, stream_seq,
                   nfeedback, calls>>

\* do_POST for the request in hand, on the shared state now
do_POST(request, now) ==
    CASE request.path = "start" -> handle_live_start(request.body)
      [] request.path = "chunk" ->
            \E r \in ResponsesFor(env, ServedResponses) :
                chunk_after_sweep(request.body,
                    cleanup_stale_live_streams(now.LIVE_STREAMS, now.events, clock), r)
      [] request.path = "finish" ->
            \E r1, r2 \in ResponsesFor(env, ServedResponses) :
                finish_after_sweep(request.body,
                    cleanup_stale_live_streams(now.LIVE_STREAMS, now.events, clock), r1, r2)
      [] request.path = "crying" ->
            \E r1, r2 \in ResponsesFor(env, {RespFull}) :
                handle_post_crying(request.body, r1, r2)
      [] request.path = "feedback" ->
            feedback_from(request.body, get_event_by_id(now.events, request.body.event_id),
                          now.memory)

Handle == InHand /\ do_POST(server.request, process_request(server.request.seen, Shared))

\* live streams of two clients
ServedChunkForms == [multipart : {TRUE}, stream_id : 1 .. MaxServedStreams, chunk : [bytes : {1, 2}], mime_type : {None}]

ConnectStart ==
    \E client \in Clients, body \in StartBodies({None}) :
        /\ stream_seq + Waiting("start") < MaxServedStreams
        /\ connect(client, "start", body)
ConnectChunk ==
    \E client \in Clients, form \in ServedChunkForms :
        /\ ChunksStored + Waiting("chunk") < MaxServedChunks
        /\ HasKey(LIVE_STREAMS, form.stream_id)
        /\ connect(client, "chunk", form)
ConnectFinish ==
    \E client \in Clients, body \in [stream_id : 1 .. MaxServedStreams] :
        /\ HasKey(LIVE_STREAMS, body.stream_id)
        /\ connect(client, "finish", body)

NextServer == ConnectStart \/ ConnectChunk \/ ConnectFinish \/ Accept \/ Handle

SpecServer == Init /\ [][NextServer]_vars

\* live streams of two caregivers side by side
MaxParallelStreams == 2
MaxParallelChunks == 3

ParallelStart ==
    \E client \in Clients, body \in StartBodies({None}) :
        /\ stream_seq + Waiting("start") < MaxParallelStreams
        /\ connect(client, "start", body)
ParallelChunk ==
    \E client \in Clients, form \in [multipart : {TRUE}, stream_id : 1 .. MaxParallelStreams, chunk : [bytes : {1}], mime_type : {None}] :
        /\ ChunksStored + Waiting("chunk") < MaxParallelChunks
        /\ HasKey(LIVE_STREAMS, form.stream_id)
        /\ connect(client, "chunk", form)
ParallelFinish ==
    \E client \in Clients, body \in [stream_id : 1 .. MaxParallelStreams] :
        /\ HasKey(LIVE_STREAMS, body.stream_id)
        /\ connect(client, "finish", body)

NextParallel == ParallelStart \/ ParallelChunk \/ ParallelFinish \/ Accept \/ Handle

SpecParallel == Init /\ [][NextParallel]_vars

\* feedback of two clients on one analysed event
ConnectCrying ==
    \E client \in Clients, body \in CryingBodies({None}) :
        /\ event_seq + Waiting("crying") < MaxServedEvents
        /\ connect(client, "crying", body)
ConnectFeedback ==
    \E client \in Clients, body \in [event_id : 1 .. MaxServedEvents, feedback : [helpful : {"True", "False"}]] :
        /\ nfeedback + Waiting("feedback") < MaxServedFeedback
        /\ connect(client, "feedback", body)

NextServerFeedback == ConnectCrying \/ ConnectFeedback \/ Accept \/ Handle

SpecServerFeedback == Init /\ [][NextServerFeedback]_vars

\* ------------------------------------------------------------------------
\* Properties
\* ------------------------------------------------------------------------
\* the step handled a request of the kind op (requests leave the clock alone,
\* and every request writes resp)
RequestStep(op) == resp'.op = op /\ clock' = clock

\* the chunk of the step was stored: answered 200, or stored and then lost
\* to an exception of the partial call
ChunkAccepted == RequestStep("chunk") /\ resp'.code \in {200, 0}
ChunkRejected == RequestStep("chunk") /\ resp'.code \notin {200, 0}

ChunkCount(streams, stream_id) ==
    IF HasKey(streams, stream_id) THEN streams[stream_id].chunk_count ELSE 0

PartialInvoked(made, event_id) ==
    Len(made) = 1 /\ made[1].arm = "partial" /\ made[1].event_id = event_id

CadenceAccepted(stream_id, n) ==
    /\ HasKey(LIVE_STREAMS, stream_id)
    /\ n = LIVE_STREAMS[stream_id].chunk_count + 1
    /\ Len(files'[LIVE_STREAMS'[stream_id].file_path]) = n
    /\ IF n % 3 = 0
       THEN /\ PartialInvoked(calls', LIVE_STREAMS'[stream_id].event_id)
            /\ ~HasKey(resp', "status")
       ELSE /\ calls' = <<>>
            /\ resp'.status = "buffering"
            /\ resp'.chunks_received = n
            /\ resp'.next_partial_in_chunks = 3 - (n % 3)

CadenceStep ==
    /\ ChunkAccepted =>
          /\ HasKey(LIVE_STREAMS', resp'.stream_id)
          /\ CadenceAccepted(resp'.stream_id, LIVE_STREAMS'[resp'.stream_id].chunk_count)
    /\ ChunkRejected =>
          /\ calls' = <<>>
          /\ files' = files
          /\ HasKey(LIVE_STREAMS', resp'.stream_id) =>
                ChunkCount(LIVE_STREAMS', resp'.stream_id)
                    = ChunkCount(LIVE_STREAMS, resp'.stream_id)

\* C1: with K = 3 the chunk handler invokes partial reasoning on exactly the
\* accepted chunks whose post-increment chunk_count is a multiple of 3 and on
\* no other chunk; every other accepted chunk is answered buffering with
\* next_partial_in_chunks = 3 - (chunk_count mod 3); a rejected chunk does
\* not advance the count.
C1_PartialCadence == [][CadenceStep]_vars

\* C1 witness: the sixth accepted chunk of a stream
\* has invoked partial reasoning
C1_SixthChunkPartial ==
    /\ resp.op = "chunk" /\ resp.code = 200 /\ resp.stream_id = 1
    /\ HasKey(LIVE_STREAMS, 1)
    /\ LIVE_STREAMS[1].chunk_count = 6
    /\ PartialInvoked(calls, LIVE_STREAMS[1].event_id)

\* the step handled a request to a live endpoint
LiveRequestStep == resp'.op \in {"start", "chunk", "finish"} /\ clock' = clock

\* the stream's last activity is more than 300 s in the past
Stale(stream_id) == clock - LIVE_STREAMS[stream_id].last_activity > 300

StreamingOf(ev, event_id) == ev[event_id].payload["streaming"]

BufferOf(fs, path) == Get(fs, path, <<>>)

\* the request of the step found the stream stale: the stream is gone, its
\* event is closed by timeout, nothing of the request reached its buffer and
\* a chunk or finish addressed to it is answered not-found
ReapedFirst(stream_id) ==
    /\ ~HasKey(LIVE_STREAMS', stream_id)
    /\ StreamingOf(events', LIVE_STREAMS[stream_id].event_id).status = "completed"
    /\ StreamingOf(events', LIVE_STREAMS[stream_id].event_id).ended_reason = "timeout"
    /\ BufferOf(files', LIVE_STREAMS[stream_id].file_path)
           = BufferOf(files, LIVE_STREAMS[stream_id].file_path)
    /\ (resp'.op \in {"chunk", "finish"} /\ resp'.stream_id = stream_id) => resp'.code = 404

\* a stream id that has left the registry never returns to it
GoneStaysGone ==
    \A stream_id \in 1 .. stream_seq :
        ~HasKey(LIVE_STREAMS, stream_id) => ~HasKey(LIVE_STREAMS', stream_id)

\* a chunk or finish addressed to a stream id that is not registered is
\* answered not-found
UnregisteredNotFound ==
    (/\ RequestStep("chunk") \/ RequestStep("finish")
     /\ resp'.stream_id # 0
     /\ ~HasKey(LIVE_STREAMS, resp'.stream_id))
    => resp'.code = 404

ReapStep ==
    /\ \A stream_id \in DOMAIN LIVE_STREAMS :
          (LiveRequestStep /\ Stale(stream_id)) => ReapedFirst(stream_id)
    /\ GoneStaysGone
    /\ UnregisteredNotFound

\* C2: a stream whose last_activity is more than 300 s in the past when a
\* live endpoint (start, chunk or finish, for any stream) is invoked is
\* removed from the registry before the request is processed and its event
\* is persisted completed with ended_reason timeout; a chunk or finish
\* addressed to it in that request or any later one is answered not-found.
C2_StaleReaped == [][ReapStep]_vars

\* C2 witness: a chunk addressed to a stream that the sweep has closed was
\* answered not-found
C2_ChunkToReaped ==
    /\ resp.op = "chunk" /\ resp.code = 404
    /\ \E e \in DOMAIN events :
          /\ StreamingOf(events, e).stream_id = resp.stream_id
          /\ Get(StreamingOf(events, e), "ended_reason", None) = "timeout"

Completed(ev, e) ==
    HasKey(ev[e].payload, "streaming") /\ StreamingOf(ev, e).status = "completed"

TerminalStep ==
    \A e \in DOMAIN events :
        Completed(events, e) =>
            /\ e \in DOMAIN events'
            /\ Completed(events', e)
            /\ Get(StreamingOf(events', e), "chunks_received", 0)
                   = Get(StreamingOf(events, e), "chunks_received", 0)
            /\ Get(StreamingOf(events', e), "total_bytes", 0)
                   = Get(StreamingOf(events, e), "total_bytes", 0)
            /\ BufferOf(files', events[e].payload["audio_path"])
                   = BufferOf(files, events[e].payload["audio_path"])
            /\ \A stream_id \in DOMAIN LIVE_STREAMS' :
                   LIVE_STREAMS'[stream_id].event_id # e

EventsOfStream(ev, stream_id) ==
    {e \in DOMAIN ev : HasKey(ev[e].payload, "streaming")
                       /\ StreamingOf(ev, e).stream_id = stream_id}

FinishOnceStep ==
    (RequestStep("finish") /\ resp'.stream_id # 0) =>
        /\ (HasKey(LIVE_STREAMS, resp'.stream_id) /\ ~Stale(resp'.stream_id)) =>
              /\ resp'.code = 200
              /\ resp'.status = "completed"
              /\ ~HasKey(LIVE_STREAMS', resp'.stream_id)
        /\ ~HasKey(LIVE_STREAMS, resp'.stream_id) =>
              /\ resp'.code = 404
              /\ events' = events
              /\ LIVE_STREAMS' = LIVE_STREAMS

\* C4: the first finish on a registered, non-stale stream returns status
\* completed and evicts the stream from the registry; finish on a stream id
\* that was never started, was already finished or was reaped returns
\* not-found and changes no stored event and no other session.
C4_FinishOnce == [][FinishOnceStep]_vars

\* the step rejected a chunk as addressed to an unknown stream or as too large
ChunkRefused == RequestStep("chunk") /\ resp'.code \in {404, 413}

\* the session a stream id names, its buffer and its event are as before
SessionUntouched(stream_id) ==
    /\ HasKey(LIVE_STREAMS, stream_id) =>
          /\ HasKey(LIVE_STREAMS', stream_id)
          /\ LIVE_STREAMS'[stream_id].chunk_count = LIVE_STREAMS[stream_id].chunk_count
          /\ LIVE_STREAMS'[stream_id].total_bytes = LIVE_STREAMS[stream_id].total_bytes
          /\ LIVE_STREAMS'[stream_id].last_activity = LIVE_STREAMS[stream_id].last_activity
          /\ LIVE_STREAMS'[stream_id].audio_mime_type = LIVE_STREAMS[stream_id].audio_mime_type
    /\ \A e \in EventsOfStream(events, stream_id) :
          /\ events'[e].payload = events[e].payload
          /\ BufferOf(files', events[e].payload["audio_path"])
                 = BufferOf(files, events[e].payload["audio_path"])

\* C5, as stated: a chunk rejected for an unknown stream_id or for exceeding
\* 512 KiB leaves the addressed session's buffer, chunk_count, total_bytes,
\* last_activity and mime type, and the stored event payload, exactly as they
\* were before the request.
C5_RejectedChunkNoChange == [][ChunkRefused => SessionUntouched(resp'.stream_id)]_vars

\* the sweep closed the session the request names: registry entry gone, event
\* completed by timeout with the counters and the buffer it had
SessionReaped(stream_id) ==
    /\ resp'.code = 404
    /\ ~HasKey(LIVE_STREAMS', stream_id)
    /\ \A e \in EventsOfStream(events, stream_id) :
          /\ StreamingOf(events', e).status = "completed"
          /\ StreamingOf(events', e).ended_reason = "timeout"
          /\ Get(StreamingOf(events', e), "chunks_received", 0)
                 = Get(StreamingOf(events, e), "chunks_received", 0)
          /\ Get(StreamingOf(events', e), "total_bytes", 0)
                 = Get(StreamingOf(events, e), "total_bytes", 0)
          /\ BufferOf(files', events[e].payload["audio_path"])
                 = BufferOf(files, events[e].payload["audio_path"])

RefusedStep ==
    ChunkRefused =>
        IF HasKey(LIVE_STREAMS, resp'.stream_id) /\ Stale(resp'.stream_id)
        THEN SessionReaped(resp'.stream_id)
        ELSE SessionUntouched(resp'.stream_id)

\* C5, amended: a chunk rejected for an unknown stream_id or for exceeding
\* 512 KiB leaves the addressed session, its buffer and its stored event
\* payload exactly as they were, unless the addressed stream was registered
\* and stale on arrival: then the sweep that opens the request removes the
\* session and closes its event (completed, timeout) before the chunk is
\* answered not-found, the buffer and the counters staying as they were.
C5_RejectedChunkAfterSweep == [][RefusedStep]_vars

\* C5 witness: a chunk over 512 KiB was refused on a stream that holds chunks
C5_OversizedRefused ==
    /\ resp.op = "chunk" /\ resp.code = 413
    /\ HasKey(LIVE_STREAMS, resp.stream_id)
    /\ LIVE_STREAMS[resp.stream_id].chunk_count >= 1
    /\ clock > LIVE_STREAMS[resp.stream_id].last_activity

\* the step ran the partial reasoning call of a K-th chunk and the call
\* produced no guidance
PartialFailedStep == RequestStep("chunk") /\ Len(calls') = 1 /\ ~calls'[1].ok

StaleSuccessStep ==
    PartialFailedStep =>
        /\ resp'.code = 200
        /\ resp'.stale = TRUE
        /\ HasKey(LIVE_STREAMS, resp'.stream_id)
        /\ HasKey(LIVE_STREAMS', resp'.stream_id)
        /\ LIVE_STREAMS'[resp'.stream_id].chunk_count
               = LIVE_STREAMS[resp'.stream_id].chunk_count + 1
        /\ Len(BufferOf(files', LIVE_STREAMS'[resp'.stream_id].file_path))
               = Len(BufferOf(files, LIVE_STREAMS[resp'.stream_id].file_path)) + 1
        /\ StreamingOf(events', LIVE_STREAMS'[resp'.stream_id].event_id).status = "streaming"

\* C6: when the partial reasoning call on a K-th chunk fails, the chunk is
\* still counted and appended, the response is a success flagged stale, and
\* the stream stays registered with status streaming, so that later chunks
\* and the finish are accepted as after a successful partial call.
C6_PartialFailureStale == [][StaleSuccessStep]_vars

NoCredentials == env \in {"no_key", "no_endpoint"}

CredentialErrors == {"GEMINI_API_KEY not set", "GEMINI_API_ENDPOINT not set"}

\* the last request was the finish of a stream after five accepted chunks
FinishedAfterFive ==
    /\ resp.op = "finish" /\ resp.code = 200
    /\ StreamingOf(events, resp.event.id).chunks_received = 5

\* every event id handed out so far is retrievable
Retrievable == \A e \in 1 .. event_seq : get_event_by_id(events, e) # NoneD

\* C7, as stated: without credentials, after start, five accepted chunks and
\* finish, the finish response has status completed and its event has
\* ai_meta.error set and no ai_guidance; the event inserted at start is
\* retrievable by its id after start, after each chunk and after finish.
C7_FinishWithMetaError ==
    NoCredentials =>
        /\ Retrievable
        /\ FinishedAfterFive =>
              /\ resp.status = "completed"
              /\ HasKey(resp.event.payload["ai_meta"], "error")
              /\ ~HasKey(resp.event.payload, "ai_guidance")

\* C7, amended: without credentials, after start, five accepted chunks and
\* finish, the finish response has status completed and its event has no
\* ai_guidance; the credentials error is kept in ab_test.treatment_error and
\* in streaming.final_error, while ai_meta holds model_name, latency_ms and
\* request_mode only; the event inserted at start is retrievable by its id
\* after start, after each chunk and after finish.
C7_FinishWithRecordedError ==
    NoCredentials =>
        /\ Retrievable
        /\ FinishedAfterFive =>
              /\ resp.status = "completed"
              /\ ~HasKey(resp.event.payload, "ai_guidance")
              /\ DOMAIN resp.event.payload["ai_meta"]
                     = {"model_name", "latency_ms", "request_mode"}
              /\ resp.event.payload["ab_test"].treatment_error.error \in CredentialErrors
              /\ HasKey(resp.event.payload["streaming"], "final_error")
              /\ resp.event.payload["streaming"].final_error.error \in CredentialErrors
              /\ resp.event.payload["streaming"].status = "completed"
              /\ get_event_by_id(events, resp.event.id) = resp.event

\* C7 witness: a stream was finished after five chunks without credentials
C7_FiveChunksNoCredentials == NoCredentials /\ FinishedAfterFive

\* the step ran a final reasoning pass: single-shot ingestion or live finish
FinalPassStep ==
    /\ RequestStep("crying") \/ RequestStep("finish")
    /\ Len(calls') >= 1

\* the event the final pass of the step was run for
PassPayload == events'[calls'[1].event_id].payload

Lines(notice) == {notice[i] : i \in DOMAIN notice}

BestEffortStep ==
    FinalPassStep =>
        /\ resp'.code = 200
        /\ calls'[1].event_id \in DOMAIN events'
        /\ resp'.event = events'[calls'[1].event_id]
        /\ ~calls'[1].ok => GUIDANCE_UNAVAILABLE_NOTICE \in Lines(PassPayload["notice"])

\* C8: for every outcome of the reasoning call (missing credentials,
\* transport error, unparseable response, validation failure) single-shot
\* crying ingestion and live finish still answer successfully, the event is
\* in the store and stays there, and its notice carries the
\* guidance-unavailable line.
C8_ReasoningBestEffort == [][BestEffortStep]_vars

\* the arm a final pass has to show: control only when assigned and produced
ArmToShow(assigned_variant, made) ==
    IF assigned_variant = "control" /\ Len(made) = 2 /\ made[2].ok
    THEN "control" ELSE "treatment"

DisplayStep ==
    (FinalPassStep /\ calls'[1].ok) =>
        /\ HasKey(PassPayload, "ab_test")
        /\ PassPayload["ab_test"].assigned_variant \in {"treatment", "control"}
        /\ RequestStep("finish") =>
              PassPayload["ab_test"].assigned_variant
                  = LIVE_STREAMS[resp'.stream_id].assigned_variant
        /\ PassPayload["ab_test"].shown_variant
               = ArmToShow(PassPayload["ab_test"].assigned_variant, calls')

\* C9: when treatment reasoning succeeds, shown_variant is control exactly
\* when assigned_variant is control and the control call produced guidance;
\* in every other case (assigned treatment, or assigned control with a
\* failed control call) shown_variant is treatment while assigned_variant
\* keeps the assigned value.
C9_DisplaySelection == [][DisplayStep]_vars

\* the record of a pass whose treatment call succeeded
RecordOfSuccess(payload, ab_test, made) ==
    /\ DOMAIN ab_test.treatment = {"ai_guidance", "ai_meta"}
    /\ DOMAIN ab_test.control = {"ai_guidance", "ai_meta"}
    /\ ab_test.treatment.ai_guidance # NoneD
    /\ Len(made) = 2
    /\ made[2].ok <=> ab_test.control.ai_guidance # NoneD
    /\ HasKey(ab_test, "control_error") <=> ~made[2].ok
    /\ payload["ai_guidance"] = IF ab_test.shown_variant = "control"
                                THEN ab_test.control.ai_guidance
                                ELSE ab_test.treatment.ai_guidance

\* the record of a pass whose treatment call failed
RecordOfFailure(payload, ab_test) ==
    /\ ab_test.shown_variant = None
    /\ ~HasKey(payload, "ai_guidance")
    /\ HasKey(ab_test, "treatment_error")
    /\ ab_test.treatment_error # NoneD

RecordStep ==
    FinalPassStep =>
        /\ HasKey(PassPayload, "ab_test")
        /\ HasKey(PassPayload["ab_test"], "assigned_variant")
        /\ HasKey(PassPayload["ab_test"], "shown_variant")
        /\ IF calls'[1].ok
           THEN RecordOfSuccess(PassPayload, PassPayload["ab_test"], calls')
           ELSE RecordOfFailure(PassPayload, PassPayload["ab_test"])

\* C10: after every final reasoning pass the event's ab_test record holds
\* assigned_variant and shown_variant; when treatment succeeded it holds the
\* treatment and the control guidance and metadata, control_error exactly
\* when the control call failed, and the top-level ai_guidance is that of the
\* arm shown; when treatment failed shown_variant is null, ai_guidance is
\* absent and the treatment error is retained.
C10_AbTestRecord == [][RecordStep]_vars

\* the treatment call of the step: first, with the recent events other than
\* the event itself and the prior learned for the event's bucket
TreatmentFirst ==
    /\ calls'[1].arm = "treatment"
    /\ calls'[1].recent = {x.id : x \in recent_events_excluding(events', calls'[1].event_id)}
    /\ calls'[1].learned_priors
           = load_reasoning_priors(memory, events'[calls'[1].event_id].occurred_at)
    /\ Len(calls') \in {1, 2}
    /\ Len(calls') = 2 <=> calls'[1].ok

\* the control call of the step: second, on the treatment's normalized
\* analysis, with no recent events, no prior and no audio
ControlSecond ==
    /\ calls'[2].arm = "control"
    /\ calls'[2].event_id = calls'[1].event_id
    /\ calls'[2].audio_analysis = calls'[1].produced
    /\ DOMAIN calls'[2].audio_analysis = {"transcription", "inference"}
    /\ calls'[2].audio_analysis.inference
           = normalize_inference(calls'[2].audio_analysis.inference)
    /\ calls'[2].recent = {}
    /\ calls'[2].learned_priors = EmptyDict
    /\ ~calls'[2].audio

DualStep ==
    FinalPassStep => /\ TreatmentFirst
                     /\ Len(calls') = 2 => ControlSecond

\* C11: in every final reasoning pass the treatment call is made first with
\* the full recent-event context and the learned prior; the control call is
\* made if and only if the treatment call succeeded, after it, with the
\* treatment's normalized audio analysis, an empty recent-event list, an
\* empty prior and no audio bytes.
C11_DualInvocation == [][DualStep]_vars

\* C11 witness: a pass with both calls, run for an uploaded recording with
\* another event in the store and a prior that feedback has moved
C11_BothCallsWithContext ==
    /\ resp.op = "crying" /\ Len(calls) = 2
    /\ calls[1].recent # {} /\ calls[1].audio
    /\ calls[1].learned_priors # DEFAULT_PRIORS

Arms == {"treatment", "control"}

\* the leading digest bytes that the split sends to an arm
BytesOf(arm) == {byte \in 0 .. 255 : variant_of_byte(byte) = arm}

\* C12: an explicitly requested treatment or control is returned whether or
\* not auto-split is enabled; any other requested value gives treatment when
\* auto-split is disabled and, when it is enabled, an arm that is the same
\* for every such request on the same event id; the split sends exactly half
\* of the 256 leading digest bytes to each arm.
C12_VariantAssignment ==
    /\ resp.op = "assign" =>
        /\ resp.requested_variant \in Arms => resp.variant = resp.requested_variant
        /\ (resp.requested_variant \notin Arms /\ ~resp.auto_split) => resp.variant = "treatment"
        /\ (resp.requested_variant \notin Arms /\ resp.auto_split) =>
              /\ resp.variant \in Arms
              /\ \A other \in RequestedVariants \ Arms :
                    resolve_ab_variant_when(TRUE, other, resp.event_id) = resp.variant
              /\ resp.variant = variant_of_byte(MD5_LEADING_BYTE[resp.event_id])
    /\ resp.op = "digest" =>
        /\ resp.variant \in Arms
        /\ resp.byte \in BytesOf(resp.variant)
        /\ \A arm \in Arms : Cardinality(BytesOf(arm)) = 128

\* C12 witness: with auto-split enabled, a request naming no arm was assigned
\* control by the digest of its event id
C12_SplitToControl ==
    /\ resp.op = "assign" /\ resp.auto_split
    /\ resp.requested_variant = None /\ resp.variant = "control"

StartAnswered == RequestStep("start") /\ resp'.code = 200

\* the sessions of the registry each have an event of their own
OneEventPerSession ==
    \A s, t \in DOMAIN LIVE_STREAMS :
        LIVE_STREAMS[s].event_id = LIVE_STREAMS[t].event_id => s = t

\* the registry and the store once the sweep that opens a start has run
Swept == cleanup_stale_live_streams(LIVE_STREAMS, events, clock)

FreshStartStep ==
    StartAnswered =>
        /\ resp'.stream_id \notin DOMAIN LIVE_STREAMS
        /\ resp'.event_id \notin DOMAIN events
        /\ resp'.stream_id \in DOMAIN LIVE_STREAMS'
        /\ LIVE_STREAMS'[resp'.stream_id].event_id = resp'.event_id
        /\ StreamingOf(events', resp'.event_id).stream_id = resp'.stream_id
        /\ OneEventPerSession'
        /\ \A s \in DOMAIN Swept.streams : s \in DOMAIN LIVE_STREAMS'
                                            /\ LIVE_STREAMS'[s] = Swept.streams[s]
        /\ \A e \in DOMAIN events : e \in DOMAIN events' /\ events'[e] = Swept.events[e]

\* C13: every start registers a session under a stream_id that is not yet in
\* the registry and creates an event whose id is not yet in the store: the
\* registry holds one session per stream_id, no two sessions share an
\* event_id, and no session or event that existed is overwritten or dropped
\* (sessions that were stale on arrival are closed by the sweep first).
C13_StartAllocatesFresh == [][FreshStartStep]_vars

\* what the last application of run_reasoning returned
Returned == resp.returned

IsResult(returned) ==
    /\ returned.ok /\ ~returned.raised
    /\ returned.error = NoneD
    /\ returned.result # NoneD
    /\ DOMAIN returned.result = {"audio_analysis", "ai_guidance", "ai_meta"}

IsError(returned) ==
    /\ ~returned.ok /\ ~returned.raised
    /\ returned.result = NoneD
    /\ returned.error # NoneD
    /\ returned.error.error # ""
    /\ HasKey(returned.error, "ai_meta")
    /\ DOMAIN returned.error.ai_meta = {"model_name", "latency_ms", "request_mode"}

\* C14: run_reasoning returns exactly one of a result and an error: a result
\* with audio_analysis, ai_guidance and meta and a null error, or a null
\* result and an error that carries the call's ai_meta; never both, never
\* neither.
C14_ResultOrError ==
    resp.op = "reasoning" => (IsResult(Returned) \/ IsError(Returned))

\* the last application of run_reasoning got a JSON object from the provider
Parsed ==
    /\ resp.op = "reasoning" /\ env = "configured"
    /\ resp.response.transport = "ok"
    /\ extract_json(resp.response) # NoneD

ParsedAnalysis == audio_analysis_of(extract_json(resp.response), resp.payload)
ParsedGuidance == guidance_of(extract_json(resp.response))

\* transcription present, every inference value given a probability
AnalysisWellFormed(audio_analysis) ==
    /\ audio_analysis # NoneD
    /\ HasKey(audio_analysis, "transcription")
    /\ HasKey(audio_analysis, "inference")
    /\ \A l \in DOMAIN audio_analysis["inference"] :
           is_probability(audio_analysis["inference"][l])

\* the four required keys, label / confidence / reasoning of the most likely
\* cause with a string label and a probability, a probability on every
\* alternative cause
GuidanceWellFormed(guidance) ==
    /\ guidance # NoneD
    /\ FirstMissing(guidance, REQUIRED_TOP) = ""
    /\ FirstMissing(guidance["most_likely_cause"], REQUIRED_MLC) = ""
    /\ guidance["most_likely_cause"]["label"] \notin UnhashableLabels
    /\ is_probability(guidance["most_likely_cause"]["confidence"])
    /\ \A i \in DOMAIN guidance["alternative_causes"] :
           /\ HasKey(guidance["alternative_causes"][i], "confidence")
           /\ is_probability(guidance["alternative_causes"][i]["confidence"])

\* C15: a parsed provider response with a missing or malformed field
\* (transcription, the inference values, the four required guidance keys,
\* label / confidence / reasoning of the most likely cause, the confidence of
\* an alternative cause) makes run_reasoning return a null result and an
\* error message; nothing malformed reaches a successful result.
C15_MalformedRejected ==
    (Parsed /\ ~(AnalysisWellFormed(ParsedAnalysis) /\ GuidanceWellFormed(ParsedGuidance)))
        => IsError(Returned)

\* the sum of a normalized mapping, in units of 1 / Scale
SumOfNormalized == SumOver(resp.normalized, DOMAIN resp.normalized)

\* no value of the mapping is a number above 0
NothingUsable(inference) == \A l \in DOMAIN inference : inference[l] <= 0

NormalizedShape ==
    /\ DOMAIN resp.normalized = CAUSE_LABELS
    /\ \A l \in CAUSE_LABELS : resp.normalized[l] >= 0
    /\ NothingUsable(resp.inference) =>
          resp.normalized = [l \in CAUSE_LABELS |-> IF l = "unknown" THEN Scale ELSE 0]

Updated == resp.op = "update" /\ resp.result.update # NoneD

StoredBucket == memory["reasoning_priors_buckets"][resp.result.update.time_bucket]

C17_StoredDistribution ==
    Updated =>
        /\ DOMAIN StoredBucket = CAUSE_LABELS
        /\ SumOver(StoredBucket, CAUSE_LABELS) = Scale
        /\ \A l \in CAUSE_LABELS :
              resp.result.stepped[l] >= CLAMP_LOW /\ resp.result.stepped[l] <= CLAMP_HIGH

\* the part that holds: the updated label is within the clamp before the
\* renormalization and the stored values sum to 1.0 within rounding
C17_UpdatedLabelClamped ==
    Updated =>
        /\ DOMAIN StoredBucket = CAUSE_LABELS
        /\ SumOver(StoredBucket, CAUSE_LABELS) \in (Scale - 2)..(Scale + 2)
        /\ resp.result.stepped[resp.label] >= CLAMP_LOW
        /\ resp.result.stepped[resp.label] <= CLAMP_HIGH

\* ------------------------------------------------------------------------
\* C18: an accepted update adds +0.05 (helpful) or -0.05 (not helpful) to the
\* label's value in the event's bucket, clamps the sum to [0.05, 0.9],
\* renormalizes the bucket, persists it and returns a record with label,
\* bucket, helpful, delta, before and after; from the uniform prior, helpful
\* feedback on hunger in the day bucket gives 0.30 before renormalization.
\* ------------------------------------------------------------------------
UpdateRecord == resp.result.update

\* the distribution of the event's bucket when the feedback arrives
BucketBefore == resp.loaded

SignedDelta == IF resp.helpful = "True" THEN DELTA ELSE 0 - DELTA

SteppedFrom(base) == [base EXCEPT ![resp.label] = Max2(CLAMP_LOW, Min2(CLAMP_HIGH, base[resp.label] + SignedDelta))]

RecordShape ==
    /\ DOMAIN UpdateRecord = {"updated_label", "time_bucket", "helpful", "delta", "before", "after"}
    /\ UpdateRecord.updated_label = resp.label
    /\ UpdateRecord.time_bucket = time_bucket(resp.occurred_at)
    /\ UpdateRecord.helpful = resp.helpful
    /\ UpdateRecord.delta = SignedDelta

C18_AcceptedUpdate ==
    Updated =>
        /\ RecordShape
        /\ UpdateRecord.before = BucketBefore
        /\ resp.result.stepped = SteppedFrom(BucketBefore)
        /\ UpdateRecord.after = normalize(SteppedFrom(BucketBefore))
        /\ StoredBucket = UpdateRecord.after
        /\ (BucketBefore = DEFAULT_PRIORS /\ resp.label = "hunger" /\ resp.helpful = "True"
               /\ UpdateRecord.time_bucket = "day")
             => resp.result.stepped["hunger"] = (3 * Scale) \div 10

\* the same, for an update that starts from what the record calls "before"
C18_FromRecordedBefore ==
    Updated =>
        /\ RecordShape
        /\ resp.result.stepped = SteppedFrom(UpdateRecord.before)
        /\ UpdateRecord.after = normalize(SteppedFrom(UpdateRecord.before))
        /\ StoredBucket = UpdateRecord.after
        /\ resp.had_bucket => UpdateRecord.before = BucketBefore

\* ------------------------------------------------------------------------
\* C19: update_reasoning_priors with feedback that is not a mapping, whose
\* helpful is not a boolean, or for an event whose guidance is absent or names
\* a label outside the four cause labels returns nothing, raises nothing and
\* leaves the prior store unchanged; the feedback endpoint still records the
\* feedback on the event and answers successfully.
\* ------------------------------------------------------------------------
GuidanceLabel(event) ==
    IF HasKey(event.payload, "ai_guidance") /\ HasKey(event.payload["ai_guidance"], "most_likely_cause")
    THEN event.payload["ai_guidance"]["most_likely_cause"]["label"]
    ELSE None

TeachesNothing(event, feedback) ==
    \/ feedback = NoneD
    \/ ~HasKey(feedback, "helpful")
    \/ feedback["helpful"] \notin {"True", "False"}
    \/ GuidanceLabel(event) \notin CAUSE_LABELS

\* the function itself, on the store as it is
SilentNoOp(event, feedback) ==
    /\ update_reasoning_priors(memory, event, feedback).raised = FALSE
    /\ update_reasoning_priors(memory, event, feedback).update = NoneD
    /\ update_reasoning_priors(memory, event, feedback).mem = memory

\* the endpoint, for the feedback it hands to the function
RecordedAndAnswered(body) ==
    /\ memory' = memory
    /\ resp'.code = 200
    /\ resp'.learning = NoneD
    /\ events'[body.event_id].payload["user_feedback"] = body.feedback
    /\ resp'.event = events'[body.event_id]

NoOpStep ==
    \A body \in NoOpBodies :
        (body.event_id \in DOMAIN events /\ TeachesNothing(events[body.event_id], body.feedback))
        => /\ SilentNoOp(events[body.event_id], body.feedback)
           /\ (handle_post_feedback(body) /\ body.feedback # NoneD) => RecordedAndAnswered(body)

C19_NoOpFeedback == [][NoOpStep]_vars

\* the same for the labels that can be looked up in a dict
NoOpStepHashable ==
    \A body \in NoOpBodies :
        (body.event_id \in DOMAIN events /\ TeachesNothing(events[body.event_id], body.feedback)
           /\ GuidanceLabel(events[body.event_id]) \notin UnhashableLabels)
        => /\ SilentNoOp(events[body.event_id], body.feedback)
           /\ (handle_post_feedback(body) /\ body.feedback # NoneD) => RecordedAndAnswered(body)

C19_NoOpFeedbackHashable == [][NoOpStepHashable]_vars

\* ------------------------------------------------------------------------
\* C20: the bucket of an event is night exactly when the hour of its
\* occurrence time expressed in UTC is in [20,24) or [0,6), and day otherwise,
\* for every occurrence time including those written with a non-UTC offset.
\* ------------------------------------------------------------------------
Bucketed == resp.op = "bucket" /\ resp.occurred_at # NoneD

UtcHour(occurred_at) == (occurred_at.t \div 3600) % 24

NightHour(hour) == hour >= 20 \/ hour < 6

C20_BucketByUtcHour ==
    Bucketed =>
        /\ resp.bucket \in {"day", "night"}
        /\ resp.bucket = "night" <=> NightHour(UtcHour(resp.occurred_at))

\* the bucket follows the hour as the time is written
C20_BucketByWrittenHour ==
    Bucketed =>
        /\ resp.bucket \in {"day", "night"}
        /\ resp.bucket = "night" <=> NightHour(((resp.occurred_at.t + resp.occurred_at.off) \div 3600) % 24)
        /\ resp.occurred_at.off = 0 => (resp.bucket = "night" <=> NightHour(UtcHour(resp.occurred_at)))

\* ------------------------------------------------------------------------
\* C21: load(bucket) returns a distribution over exactly the four cause
\* labels that sums to 1: the stored distribution of that bucket renormalized,
\* or the uniform 0.25 distribution when nothing is stored for that bucket or
\* what is stored is malformed.
\* ------------------------------------------------------------------------
Loaded == resp.op = "load"

\* what the file stores for the bucket, NoneD for nothing
StoredFor(file, bucket) ==
    IF file = NotAnObject \/ ~HasKey(file, "reasoning_priors_buckets") THEN NoneD
    ELSE IF file["reasoning_priors_buckets"] = NoneD THEN NoneD
    ELSE IF ~HasKey(file["reasoning_priors_buckets"], bucket) THEN NoneD
    ELSE file["reasoning_priors_buckets"][bucket]

WellFormed(stored) ==
    /\ stored # NoneD
    /\ DOMAIN stored = CAUSE_LABELS
    /\ \A l \in CAUSE_LABELS : stored[l] >= 0
    /\ SumOver(stored, CAUSE_LABELS) > 0

Renormalized(stored) == [l \in CAUSE_LABELS |-> RoundDiv(stored[l] * Scale, SumOver(stored, CAUSE_LABELS))]

C21_LoadReturnsDistribution ==
    Loaded =>
        /\ ~resp.raised
        /\ DOMAIN resp.loaded = CAUSE_LABELS
        /\ SumOver(resp.loaded, CAUSE_LABELS) = Scale
        /\ resp.loaded = IF WellFormed(StoredFor(resp.file, resp.bucket))
                         THEN Renormalized(StoredFor(resp.file, resp.bucket))
                         ELSE DEFAULT_PRIORS

\* what holds of a file that update_reasoning_priors has written
C21_LoadOfWrittenFile ==
    (Loaded /\ ~resp.raised /\ HasKey(resp.file, "reasoning_priors_buckets")
       /\ resp.file["reasoning_priors_buckets"] # NoneD
       /\ StoredFor(resp.file, resp.bucket) \in {NoneD, DEFAULT_PRIORS, SkewedPriors})
    => /\ DOMAIN resp.loaded = CAUSE_LABELS
       /\ SumOver(resp.loaded, CAUSE_LABELS) \in (Scale - 2) .. (Scale + 2)
       /\ resp.loaded = IF StoredFor(resp.file, resp.bucket) = NoneD THEN DEFAULT_PRIORS
                        ELSE Renormalized(StoredFor(resp.file, resp.bucket))

\* ------------------------------------------------------------------------
\* C22: build_metrics never divides by zero: the overall helpful rate, each
\* slice's helpful rate and each median is null exactly when its own sample
\* set is empty, every uplift is null when either of its two slices has no
\* value, and with zero feedback events helpful_rate and
\* median_resolved_minutes are both null.
\* ------------------------------------------------------------------------
Measured == resp.op = "metrics"

Crying == {events[i] : i \in {j \in DOMAIN events : events[j].category = "crying"}}

WithFeedback == {e \in Crying : HasKey(e.payload, "user_feedback") /\ e.payload["user_feedback"]["helpful"] \in {"True", "False"}}

WithMinutes(sample) == {e \in sample : HasKey(e.payload["user_feedback"], "resolved_in_minutes")}

Noted == {e \in WithFeedback : HasKey(e.payload, "ai_guidance") /\ HasKey(e.payload["ai_guidance"], "uncertainty_note")}

\* the events that the A/B slice of a variant holds
InSlice(variant) ==
    {e \in WithFeedback :
        /\ HasKey(e.payload, "ab_test")
        /\ \/ e.payload["ab_test"]["shown_variant"] = variant
           \/ e.payload["ab_test"]["shown_variant"] = None /\ e.payload["ab_test"]["assigned_variant"] = variant}

NullWhenEmpty(slice, sample) ==
    /\ slice.samples = Cardinality(sample)
    /\ slice.helpful_rate = <<>> <=> sample = {}
    /\ slice.median_resolved_minutes = <<>> <=> WithMinutes(sample) = {}

NullUplift(uplift, a, b) ==
    /\ uplift.helpful_rate_uplift = <<>> <=> (a.helpful_rate = <<>> \/ b.helpful_rate = <<>>)
    /\ uplift.median_resolved_minutes_delta = <<>>
         <=> (a.median_resolved_minutes = <<>> \/ b.median_resolved_minutes = <<>>)

C22_NullWhenNoSample ==
    Measured =>
        /\ resp.metrics.helpful_rate = <<>> <=> WithFeedback = {}
        /\ resp.metrics.median_resolved_minutes = <<>> <=> WithMinutes(WithFeedback) = {}
        /\ NullWhenEmpty(resp.metrics.context_comparison.with_context, WithFeedback \ Noted)
        /\ NullWhenEmpty(resp.metrics.context_comparison.limited_context, Noted)
        /\ resp.metrics.context_comparison.no_context = resp.metrics.context_comparison.limited_context
        /\ \A v \in {"treatment", "control"} : NullWhenEmpty(resp.metrics.ab_comparison[v], InSlice(v))
        /\ NullUplift(resp.metrics.uplift, resp.metrics.context_comparison.with_context,
                       resp.metrics.context_comparison.limited_context)
        /\ NullUplift(resp.metrics.ab_uplift, resp.metrics.ab_comparison.treatment,
                       resp.metrics.ab_comparison.control)
        /\ resp.metrics.totals.feedback_events = Cardinality(WithFeedback)

\* a store where one slice has samples and the other has none, and one with
\* no feedback at all
C22_OneSliceEmpty ==
    /\ Measured
    /\ resp.metrics.context_comparison.with_context.samples > 0
    /\ resp.metrics.context_comparison.limited_context.samples = 0
    /\ resp.metrics.uplift.helpful_rate_uplift = <<>>
    /\ resp.metrics.helpful_rate # <<>>
    /\ resp.metrics.median_resolved_minutes = <<>>

\* ------------------------------------------------------------------------
\* C23: build_metrics counts a crying event that carries boolean feedback in
\* the A/B slice of the arm that was shown for it: in the treatment slice only
\* if shown_variant is treatment, in the control slice only if shown_variant
\* is control, and in neither slice when no arm was shown.
\* ------------------------------------------------------------------------
ShownAs(variant) == {e \in WithFeedback : HasKey(e.payload, "ab_test") /\ e.payload["ab_test"]["shown_variant"] = variant}

C23_SliceOfShownArm ==
    \A v \in {"treatment", "control"} :
        build_metrics(events).ab_comparison[v].samples = Cardinality(ShownAs(v))

\* the slices count the events by the arm shown or, when none was shown, by
\* the arm assigned
C23_SliceOfShownOrAssigned ==
    \A v \in {"treatment", "control"} :
        build_metrics(events).ab_comparison[v].samples
          = Cardinality(ShownAs(v)) + Cardinality({e \in ShownAs(None) : e.payload["ab_test"]["assigned_variant"] = v})

\* ------------------------------------------------------------------------
\* C24: in every reachable state every stored event of category crying
\* carries a notice that starts with the probabilistic, non-diagnostic
\* disclaimer; no operation (start, chunk, partial update, finish, reap,
\* feedback, manual event creation) produces or leaves a crying event
\* without it.
\* ------------------------------------------------------------------------
CarriesNotice(event) ==
    /\ HasKey(event.payload, "notice")
    /\ Len(event.payload["notice"]) >= 1
    /\ Head(event.payload["notice"]) = CRYING_NOTICE

C24_CryingCarriesNotice ==
    \A id \in DOMAIN events : events[id].category = "crying" => CarriesNotice(events[id])

\* the events that the crying and live endpoints create carry it
C24_CryingEndpointsCarryNotice ==
    \A id \in DOMAIN events : events[id].type = "crying" => CarriesNotice(events[id])

\* ------------------------------------------------------------------------
\* C25: after a final reasoning pass the event's notice contains the
\* safety-escalation line if and only if the number of high-intensity events
\* among the current event and the recent crying events whose time lies
\* within the 60 minutes up to the current event's time is at least 3,
\* whether the reasoning succeeded or failed.
\* ------------------------------------------------------------------------
Loud(event) ==
    /\ HasKey(event.payload, "audio_analysis")
    /\ event.payload["audio_analysis"]["transcription"] \in {"high-pitched crying", "loud crying"}

\* the event of the pass and the crying events of the hour up to its time
InWindow(ev, id) ==
    {j \in DOMAIN ev :
        /\ ev[j].category = "crying"
        /\ ev[j].occurred_at.t <= ev[id].occurred_at.t
        /\ ev[j].occurred_at.t >= ev[id].occurred_at.t - 3600}

LoudInWindow(ev, id) == Cardinality({j \in InWindow(ev, id) : Loud(ev[j])})

Escalated(event) == HasKey(event.payload, "notice") /\ SAFETY_NOTICE \in Lines(event.payload["notice"])

SafetyStep ==
    FinalPassStep =>
        (Escalated(events'[calls'[1].event_id]) <=> LoudInWindow(events', calls'[1].event_id) >= 3)

C25_SafetyEscalation == [][SafetyStep]_vars

\* the same for the passes that return
SafetyStepReturned ==
    (FinalPassStep /\ resp'.code = 200) =>
        (Escalated(events'[calls'[1].event_id]) <=> LoudInWindow(events', calls'[1].event_id) >= 3)

C25_SafetyEscalationReturned == [][SafetyStepReturned]_vars

\* ------------------------------------------------------------------------
\* Requests in flight together
\* ------------------------------------------------------------------------
\* the request in hand was sent while another request on the path `path` was
\* in flight, which the server has answered just before it
Overtaken(path) == Len(server.request.ahead) = 1 /\ server.request.ahead[1].path = path

\* the step answers the request in hand
Answers(path) == InHand /\ server.request.path = path /\ resp'.op # "accepted"

StreamBuffer(fs, streams, stream_id) ==
    IF HasKey(streams, stream_id) THEN Get(fs, streams[stream_id].file_path, <<>>) ELSE <<>>

TotalBytes(streams, stream_id) ==
    IF HasKey(streams, stream_id) THEN streams[stream_id].total_bytes ELSE 0

\* the response of a chunk on which the partial call was due
KthChunk(response) == "stale" \in DOMAIN response

ChunkAnswered(response, stream_id) ==
    response.op = "chunk" /\ response.code = 200 /\ response.stream_id = stream_id

\* the second of two accepted chunks of one stream that were in flight together
BothChunksAccepted ==
    /\ Answers("chunk")
    /\ Overtaken("chunk")
    /\ server.request.ahead[1].body.stream_id = server.request.body.stream_id
    /\ ChunkAnswered(server.answered, server.request.body.stream_id)
    /\ ChunkAnswered(resp', server.request.body.stream_id)

TwoChunksWhole(stream_id, seen, first, second) ==
    /\ ChunkCount(LIVE_STREAMS', stream_id) = ChunkCount(seen.LIVE_STREAMS, stream_id) + 2
    /\ TotalBytes(LIVE_STREAMS', stream_id)
           = TotalBytes(seen.LIVE_STREAMS, stream_id) + first + second
    /\ StreamBuffer(files', LIVE_STREAMS', stream_id)
           \in {StreamBuffer(seen.files, seen.LIVE_STREAMS, stream_id) \o <<first, second>>,
                StreamBuffer(seen.files, seen.LIVE_STREAMS, stream_id) \o <<second, first>>}
    /\ IF \E n \in 1 .. 2 : PartialDue(ChunkCount(seen.LIVE_STREAMS, stream_id) + n)
       THEN KthChunk(server.answered) # KthChunk(resp')
       ELSE ~KthChunk(server.answered) /\ ~KthChunk(resp')

TwoChunksStep ==
    BothChunksAccepted =>
        TwoChunksWhole(server.request.body.stream_id, server.request.seen,
                       server.request.ahead[1].body.chunk.bytes,
                       server.request.body.chunk.bytes)

\* C26: two chunk requests for one stream that are in flight together and are
\* both accepted raise chunk_count by exactly 2 and total_bytes by the sum of
\* their sizes, leave both chunks whole in the buffer in one of the two
\* orders, and exactly one of them is answered as a K-th chunk when the count
\* crosses a multiple of K (none when it does not)
C26_ChunksDoNotInterleave == [][TwoChunksStep]_vars

\* both chunks of a pair in flight together are answered, one as the K-th
C26_PairCrossesK ==
    /\ resp.op = "chunk"
    /\ resp.code = 200
    /\ server.request.path = "chunk"
    /\ Overtaken("chunk")
    /\ server.request.ahead[1].body.stream_id = resp.stream_id
    /\ ChunkAnswered(server.answered, resp.stream_id)
    /\ ChunkCount(LIVE_STREAMS, resp.stream_id) = ChunkCount(server.request.seen.LIVE_STREAMS, resp.stream_id) + 2
    /\ KthChunk(server.answered) # KthChunk(resp)


FinishAnswered(response, stream_id) ==
    /\ response.op = "finish"
    /\ response.code = 200
    /\ response.stream_id = stream_id
    /\ response.status = "completed"

\* the finish that follows a chunk it was in flight with counts the chunk and
\* reads a buffer that holds it
ChunkBeforeFinish(stream_id, seen, chunk_bytes) ==
    /\ resp'.event.payload["streaming"]["chunks_received"]
           = ChunkCount(seen.LIVE_STREAMS, stream_id) + 1
    /\ resp'.event.payload["streaming"]["total_bytes"]
           = TotalBytes(seen.LIVE_STREAMS, stream_id) + chunk_bytes
    /\ files' = files
    /\ StreamBuffer(files, seen.LIVE_STREAMS, stream_id)
           = StreamBuffer(seen.files, seen.LIVE_STREAMS, stream_id) \o <<chunk_bytes>>
    /\ StreamingOf(events', seen.LIVE_STREAMS[stream_id].event_id)
           = resp'.event.payload["streaming"]

ChunkThenFinishStep ==
    (/\ Answers("finish")
     /\ Overtaken("chunk")
     /\ server.request.ahead[1].body.stream_id = server.request.body.stream_id
     /\ ChunkAnswered(server.answered, server.request.body.stream_id)
     /\ FinishAnswered(resp', server.request.body.stream_id))
        => ChunkBeforeFinish(server.request.body.stream_id, server.request.seen,
                             server.request.ahead[1].body.chunk.bytes)

\* the chunk that follows a finish it was in flight with is answered
\* not-found and leaves the buffer, the registry and the closed event alone
ChunkAfterFinish(stream_id, seen) ==
    /\ resp'.op = "chunk"
    /\ resp'.code = 404
    /\ files' = files
    /\ ~HasKey(LIVE_STREAMS', stream_id)
    /\ StreamingOf(events', seen.LIVE_STREAMS[stream_id].event_id)
           = StreamingOf(events, seen.LIVE_STREAMS[stream_id].event_id)

FinishThenChunkStep ==
    (/\ Answers("chunk")
     /\ Overtaken("finish")
     /\ server.request.ahead[1].body.stream_id = server.request.body.stream_id
     /\ FinishAnswered(server.answered, server.request.body.stream_id))
        => ChunkAfterFinish(server.request.body.stream_id, server.request.seen)

\* an event that finish has stored as completed is not streaming again
CompletedStays ==
    \A id \in DOMAIN events :
        Get(Get(events[id].payload, "streaming", EmptyDict), "status", None) = "completed"
            => /\ id \in DOMAIN events'
               /\ StreamingOf(events', id)["status"] = "completed"

C27_ChunkWonTheRace ==
    /\ resp.op = "finish"
    /\ resp.code = 200
    /\ server.request.path = "finish"
    /\ Overtaken("chunk")
    /\ ChunkAnswered(server.answered, resp.stream_id)


\* the handler of the request reaches its reasoning call and the call sends
\* a request to the provider: a finish of a live stream, or the K-th chunk of
\* one, in a process that has the credentials
ReachesProvider(request, now) ==
    /\ env = "configured"
    /\ request.path \in {"chunk", "finish"}
    /\ HasKey(now.LIVE_STREAMS, request.body.stream_id)
    /\ get_event_by_id(now.events, now.LIVE_STREAMS[request.body.stream_id].event_id) # NoneD
    /\ request.path = "chunk" =>
           /\ request.body.chunk.bytes <= LIVE_CHUNK_MAX_BYTES
           /\ PartialDue(now.LIVE_STREAMS[request.body.stream_id].chunk_count + 1)

\* the thread is inside a handler that waits on the provider
WaitsOnProvider == InHand /\ ReachesProvider(server.request, Shared)

\* the handlers that return from a request to the provider are those
ProviderReturns ==
    Handle => (ReachesProvider(server.request, Shared)
                   <=> \E i \in 1 .. Len(calls') : calls'[i].requests > 0)

C28_WaitIsTheProviderCall == [][ProviderReturns]_vars

\* a chunk upload for another stream, one that is live, is the next connection
OtherStreamChunkWaits ==
    /\ server.backlog # <<>>
    /\ Head(server.backlog).path = "chunk"
    /\ Head(server.backlog).body.stream_id # server.request.body.stream_id
    /\ HasKey(LIVE_STREAMS, Head(server.backlog).body.stream_id)

\* C28: while the request of one stream waits on the inference provider, a
\* chunk upload for another stream can be accepted (and then answered): the
\* slow call does not delay the other stream's chunk
C28_OtherStreamNotDelayed == (WaitsOnProvider /\ OtherStreamChunkWaits) => ENABLED Accept

\* a chunk upload for another stream waits while the handler in hand waits
\* on the provider
C28_OtherStreamDelayed == WaitsOnProvider /\ OtherStreamChunkWaits /\ ~ENABLED Accept


\* the feedback was accepted and taught the priors something
FeedbackLearned(response) ==
    response.op = "feedback" /\ response.code = 200 /\ response.learning # NoneD

BucketsStored(mem) == Get(mem, "reasoning_priors_buckets", EmptyDict)

\* the memory file after the feedback of `first` and then that of `second`
OneAfterTheOther(mem, ev, first, second) ==
    update_reasoning_priors(
        update_reasoning_priors(mem, get_event_by_id(ev, first.event_id), first.feedback).mem,
        get_event_by_id(ev, second.event_id), second.feedback).mem

BothFeedbacksLearned ==
    /\ Answers("feedback")
    /\ Overtaken("feedback")
    /\ FeedbackLearned(server.answered)
    /\ FeedbackLearned(resp')

TwoFeedbacksStep ==
    BothFeedbacksLearned =>
        BucketsStored(memory')
            \in {BucketsStored(OneAfterTheOther(server.request.seen.memory,
                                                 server.request.seen.events,
                                                 server.request.ahead[1].body,
                                                 server.request.body)),
                 BucketsStored(OneAfterTheOther(server.request.seen.memory,
                                                 server.request.seen.events,
                                                 server.request.body,
                                                 server.request.ahead[1].body))}

\* C29: two feedback updates that are in flight together and are both
\* accepted both take effect: the buckets stored afterwards are those of the
\* two updates applied one after the other, in one of the two orders, to the
\* memory file as it was when they were sent
C29_NoLostUpdate == [][TwoFeedbacksStep]_vars

\* two feedbacks in flight together have both been answered with an update,
\* and the stored bucket differs from what either alone would have left
C29_BothUpdatesStored ==
    /\ FeedbackLearned(resp)
    /\ server.request.path = "feedback"
    /\ Overtaken("feedback")
    /\ FeedbackLearned(server.answered)
    /\ BucketsStored(memory)
           # BucketsStored(update_reasoning_priors(server.request.seen.memory,
                 get_event_by_id(server.request.seen.events, server.request.body.event_id),
                 server.request.body.feedback).mem)
    /\ BucketsStored(memory)
           # BucketsStored(update_reasoning_priors(server.request.seen.memory,
                 get_event_by_id(server.request.seen.events, server.request.ahead[1].body.event_id),
                 server.request.ahead[1].body.feedback).mem)


Invoked == resp.op = "invoked"

\* the requests the invocation sent are as many as the credentials allow
RequestsAsConfigured(returned) ==
    /\ returned.requests <= 1
    /\ env \in {"no_key", "no_endpoint"} => returned.requests = 0
    /\ env = "configured" => returned.requests = 1

\* a request that timed out or was answered with an HTTP error makes the
\* invocation return (None, error)
FailureReturned(response, returned) ==
    (returned.requests = 1 /\ response.transport \in {"http_error", "exception"})
        => /\ ~returned.ok
           /\ ~returned.raised
           /\ returned.error # NoneD

\* C30: an invocation of run_reasoning sends at most one request to the
\* provider: none when the key or the endpoint is missing, exactly one
\* otherwise, and the timeout or HTTP error of that request is returned as
\* the failure of the invocation
C30_OneRequestPerInvocation ==
    Invoked => /\ RequestsAsConfigured(resp.returned)
               /\ FailureReturned(resp.response, resp.returned)

\* the same of every invocation whose recent sleep log has a finite duration
C30_OneRequestWhenSummaryBuilt ==
    (Invoked /\ ~sleep_duration_raises(resp.recent_events))
        => /\ RequestsAsConfigured(resp.returned)
           /\ FailureReturned(resp.response, resp.returned)

\* a request has timed out and the invocation has returned its error
C30_TimeoutReturned ==
    /\ Invoked
    /\ resp.response = RespTimeout
    /\ resp.returned.requests = 1
    /\ ~resp.returned.ok


Blended == resp.op = "blended" /\ resp.returned.ok

\* the caller's prior has a probability for the winning label
PriorFor(learned_priors, label) ==
    /\ HasKey(learned_priors, label)
    /\ learned_priors[label] >= 0
    /\ learned_priors[label] <= Scale

\* 0.75 and 0.45 in the unit of the model
TierOf(confidence) ==
    IF 100 * confidence >= 75 * Scale THEN "high"
    ELSE IF 100 * confidence >= 45 * Scale THEN "medium"
    ELSE "low"

\* value is 0.7 * confidence + 0.3 * prior rounded to the fourth decimal
BlendOf(value, confidence, prior) ==
    /\ 10 * value - (7 * confidence + 3 * prior) <= 5
    /\ (7 * confidence + 3 * prior) - 10 * value <= 5
    /\ value >= 0
    /\ value <= Scale

BlendedAndTiered(provided, learned_priors, guidance) ==
    /\ IF PriorFor(learned_priors, provided["most_likely_cause"].label)
       THEN /\ BlendOf(guidance["most_likely_cause"].confidence,
                       provided["most_likely_cause"].confidence,
                       learned_priors[provided["most_likely_cause"].label])
            /\ HasKey(guidance, "prior_weight")
            /\ guidance["prior_weight"]
                   = [label |-> provided["most_likely_cause"].label,
                      prior |-> learned_priors[provided["most_likely_cause"].label],
                      strategy |-> "0.7_model + 0.3_feedback_prior"]
       ELSE /\ guidance["most_likely_cause"].confidence = provided["most_likely_cause"].confidence
            /\ Get(guidance, "prior_weight", NoneD) = Get(provided, "prior_weight", NoneD)
    /\ guidance["confidence_level"] = TierOf(guidance["most_likely_cause"].confidence)

StreamOfStep == Get(resp', "stream_id", 0)

\* registry entry, buffer and stored event of the stream are as before
Untouched(stream_id) ==
    /\ HasKey(LIVE_STREAMS', stream_id)
    /\ LIVE_STREAMS'[stream_id] = LIVE_STREAMS[stream_id]
    /\ BufferOf(files', LIVE_STREAMS[stream_id].file_path)
           = BufferOf(files, LIVE_STREAMS[stream_id].file_path)
    /\ get_event_by_id(events', LIVE_STREAMS[stream_id].event_id)
           = get_event_by_id(events, LIVE_STREAMS[stream_id].event_id)

FrameStep ==
    LiveRequestStep =>
        \A other \in DOMAIN LIVE_STREAMS :
            (other # StreamOfStep /\ ~Stale(other)) => Untouched(other)

\* C32: a start, chunk or finish for one stream changes neither the registry
\* entry, nor the buffer, nor the stored event of any other registered
\* stream whose last activity is within the timeout
C32_OtherStreamsUntouched == [][FrameStep]_vars


\* the chunks accepted for a registered stream are those in its buffer
CountsMatchBuffer(streams, fs, stream_id) ==
    /\ streams[stream_id].chunk_count = Len(BufferOf(fs, streams[stream_id].file_path))
    /\ streams[stream_id].total_bytes = SumSeq(BufferOf(fs, streams[stream_id].file_path))

PersistedCounts(streaming, stream_state) ==
    /\ streaming["chunks_received"] = stream_state.chunk_count
    /\ streaming["total_bytes"] = stream_state.total_bytes

CountersStep ==
    /\ \A s \in DOMAIN LIVE_STREAMS' : CountsMatchBuffer(LIVE_STREAMS', files', s)
    /\ \A s \in (DOMAIN LIVE_STREAMS) \cap (DOMAIN LIVE_STREAMS') :
          /\ LIVE_STREAMS'[s].chunk_count >= LIVE_STREAMS[s].chunk_count
          /\ LIVE_STREAMS'[s].total_bytes >= LIVE_STREAMS[s].total_bytes
    /\ (ChunkAccepted /\ HasKey(LIVE_STREAMS', resp'.stream_id)) =>
          PersistedCounts(StreamingOf(events', LIVE_STREAMS'[resp'.stream_id].event_id),
                          LIVE_STREAMS'[resp'.stream_id])
    /\ (RequestStep("finish") /\ resp'.code = 200) =>
          /\ HasKey(LIVE_STREAMS, resp'.stream_id)
          /\ PersistedCounts(resp'.event.payload["streaming"], LIVE_STREAMS[resp'.stream_id])
          /\ PersistedCounts(StreamingOf(events', resp'.event.id), LIVE_STREAMS[resp'.stream_id])
          /\ CountsMatchBuffer(LIVE_STREAMS, files', resp'.stream_id)

\* C33: for every registered stream chunk_count is the number of chunks
\* accepted for it and total_bytes the sum of their sizes; neither decreases
\* while the stream is registered; after an accepted chunk the persisted
\* streaming.chunks_received and streaming.total_bytes equal them; the
\* finalized event reports the totals over all accepted chunks
C33_CountersTrackChunks == [][CountersStep]_vars


RegistryAgrees(streams, ev) ==
    /\ \A s \in DOMAIN streams :
          /\ streams[s].event_id \in DOMAIN ev
          /\ HasKey(ev[streams[s].event_id].payload, "streaming")
          /\ StreamingOf(ev, streams[s].event_id).status = "streaming"
    /\ \A e \in DOMAIN ev :
          Completed(ev, e) => ~\E s \in DOMAIN streams : streams[s].event_id = e

\* the sweep of the request ran at the clock of the step
NoneOlderThanTimeout(streams, now) ==
    \A s \in DOMAIN streams : now - streams[s].last_activity <= LIVE_STREAM_TIMEOUT_SEC

BoundaryStep ==
    /\ RegistryAgrees(LIVE_STREAMS', events')
    /\ LiveRequestStep => NoneOlderThanTimeout(LIVE_STREAMS', clock)

\* C34: at every request boundary every registered stream refers to a stored
\* event whose streaming.status is streaming and no completed event has a
\* registry entry; after a live-endpoint request no registry entry is older
\* than the timeout as measured at the sweep of that request
C34_RegistryMatchesStore == [][BoundaryStep]_vars


ArmOfEvent(ev, event_id) == StreamingOf(ev, event_id).assigned_variant

ArmStep ==
    /\ \A s \in DOMAIN LIVE_STREAMS' :
          /\ LIVE_STREAMS'[s].event_id \in DOMAIN events'
          /\ ArmOfEvent(events', LIVE_STREAMS'[s].event_id) = LIVE_STREAMS'[s].assigned_variant
    /\ \A s \in (DOMAIN LIVE_STREAMS) \cap (DOMAIN LIVE_STREAMS') :
          LIVE_STREAMS'[s].assigned_variant = LIVE_STREAMS[s].assigned_variant
    /\ (RequestStep("finish") /\ resp'.code = 200) =>
          /\ HasKey(LIVE_STREAMS, resp'.stream_id)
          /\ HasKey(resp'.event.payload, "ab_test")
          /\ resp'.event.payload["ab_test"]["assigned_variant"]
                = LIVE_STREAMS[resp'.stream_id].assigned_variant
          /\ resp'.event.payload["ab_test"]["assigned_variant"]
                = resp'.event.payload["streaming"].assigned_variant
          /\ events'[resp'.event.id] = resp'.event

\* C35: the arm assigned to a live stream at start never changes during the
\* session: the registry and the streaming block of the event hold the arm of
\* the start through every chunk and partial update, and the ab_test of the
\* finalized event has that assigned_variant
C35_ArmKept == [][ArmStep]_vars


TimedOut(ev, e) ==
    /\ HasKey(ev[e].payload, "streaming")
    /\ Get(StreamingOf(ev, e), "ended_reason", None) = "timeout"

\* the calls of the step hold no call for the event
NoPassFor(e) == \A i \in DOMAIN calls' : calls'[i].event_id # e

ClosedWithoutGuidance(payload) ==
    /\ payload["streaming"].status = "completed"
    /\ payload["notice"] = compose_notice(TRUE, FALSE)
    /\ ~HasKey(payload, "ai_guidance")
    /\ ~HasKey(payload, "ab_test")

SweptStep ==
    \A e \in DOMAIN events' :
        TimedOut(events', e) => (NoPassFor(e) /\ ClosedWithoutGuidance(events'[e].payload))

\* C36: a stream closed by the timeout sweep gets no final reasoning pass:
\* no provider call is made for its event at or after the sweep, and the
\* event ends with streaming.status completed, ended_reason timeout, the
\* guidance-unavailable notice, no ai_guidance and no ab_test record,
\* whatever number of chunks was buffered
C36_SweptWithoutGuidance == [][SweptStep]_vars


\* the same without the ab_test record: what holds of every swept stream
SweptPassStep ==
    \A e \in DOMAIN events' :
        TimedOut(events', e) =>
            /\ NoPassFor(e)
            /\ ClosedWithoutGuidance(PopKey(events'[e].payload, "ab_test"))

C36_SweptWithoutPass == [][SweptPassStep]_vars


OtherBucket(bucket) == IF bucket = "day" THEN "night" ELSE "day"

\* an occurrence time of the bucket: 12:00 UTC for day, 03:00 UTC for night
TimeOf(bucket) == [t |-> (IF bucket = "day" THEN 12 ELSE 3) * 3600, off |-> 0]

BucketStoredIn(mem, bucket) == Get(Get(mem, "reasoning_priors_buckets", EmptyDict), bucket, NoneD)

IsolatedStep ==
    (resp'.op = "update" /\ resp'.result.update # NoneD /\ nfeedback' # nfeedback) =>
        LET update == resp'.result.update
            other == OtherBucket(update.time_bucket)
        IN  /\ update.before = load_reasoning_priors(memory, TimeOf(update.time_bucket))
            /\ BucketStoredIn(memory', other) = BucketStoredIn(memory, other)
            /\ load_reasoning_priors(memory', TimeOf(other))
                  = load_reasoning_priors(memory, TimeOf(other))

\* C37: an accepted update starts from the distribution that load returns
\* for the bucket of the event at that moment (the before of the record), and
\* leaves what is stored and what load returns for the other bucket as it
\* was, so that the first update of the other bucket starts from its own
\* distribution as well
C37_BucketsIsolated == [][IsolatedStep]_vars


\* the part that holds: the other bucket is left alone, and a bucket that is
\* stored is updated from what load returns for it
LeftAloneStep ==
    (resp'.op = "update" /\ resp'.result.update # NoneD /\ nfeedback' # nfeedback) =>
        LET update == resp'.result.update
            other == OtherBucket(update.time_bucket)
        IN  /\ BucketStoredIn(memory, update.time_bucket) # NoneD
                 => update.before = load_reasoning_priors(memory, TimeOf(update.time_bucket))
            /\ BucketStoredIn(memory', other) = BucketStoredIn(memory, other)
            /\ load_reasoning_priors(memory', TimeOf(other))
                  = load_reasoning_priors(memory, TimeOf(other))

C37_OtherBucketLeftAlone == [][LeftAloneStep]_vars


\* the control guidance recorded for the event, NoneD when none was produced
ControlGuidanceOf(event) ==
    IF HasKey(event.payload, "ab_test") /\ HasKey(event.payload["ab_test"], "control")
    THEN event.payload["ab_test"]["control"]["ai_guidance"]
    ELSE NoneD

ShownControl(ev) ==
    {e \in scored_events(ev) : HasKey(e.payload, "ab_test")
                               /\ e.payload["ab_test"]["shown_variant"] = "control"}

NoteAndNoPrior(guidance) ==
    /\ HasKey(guidance, "uncertainty_note")
    /\ ~HasKey(guidance, "prior_weight")

CountedLimited(ev) ==
    /\ \A e \in ShownControl(ev) : has_uncertainty_note(e)
    /\ build_metrics(ev).context_comparison.with_context.samples
         = Cardinality({e \in scored_events(ev) \ ShownControl(ev) : ~has_uncertainty_note(e)})
    /\ build_metrics(ev).context_comparison.limited_context.samples
         >= Cardinality(ShownControl(ev))

\* C38: every control-arm guidance that is produced carries an
\* uncertainty_note and no prior_weight, and every event whose shown arm is
\* control is counted by build_metrics in the limited-context slice, never
\* in the with-context slice
C38_ControlIsLimitedContext ==
    /\ \A i \in DOMAIN events :
          ControlGuidanceOf(events[i]) # NoneD => NoteAndNoPrior(ControlGuidanceOf(events[i]))
    /\ CountedLimited(events)

\* the part that holds: the note, and the slice that follows from it
C38_ControlCarriesNote ==
    /\ \A i \in DOMAIN events :
          ControlGuidanceOf(events[i]) # NoneD
            => HasKey(ControlGuidanceOf(events[i]), "uncertainty_note")
    /\ CountedLimited(events)

C38_ControlCounted == ShownControl(events) # {}


\* one clamped step of delta at the label, renormalized
OneStep(dist, label, delta) ==
    normalize([dist EXCEPT ![label] = Max2(CLAMP_LOW, Min2(CLAMP_HIGH, @ + delta))])

\* the feedback is one that the learner accepts for the event
AcceptedFor(event, feedback) ==
    /\ IsBool(Get(feedback, "helpful", None))
    /\ HasKey(event.payload, "ai_guidance")
    /\ event.payload["ai_guidance"]["most_likely_cause"]["label"] \in CAUSE_LABELS

AppliesOneStep(event, feedback, update) ==
    /\ update # NoneD
    /\ update.updated_label = event.payload["ai_guidance"]["most_likely_cause"]["label"]
    /\ update.delta = (IF feedback["helpful"] = "True" THEN DELTA ELSE 0 - DELTA)
    /\ BucketStoredIn(memory, update.time_bucket) # NoneD
          => update.before = load_reasoning_priors(memory, event.occurred_at)
    /\ BucketStoredIn(memory', update.time_bucket)
          = OneStep(update.before, update.updated_label, update.delta)
    /\ update.after = BucketStoredIn(memory', update.time_bucket)

HoldsLatest(payload, feedback, update) ==
    /\ payload["user_feedback"] = feedback
    /\ payload["learning_update"] = update

RepeatStep ==
    (RequestStep("feedback") /\ resp'.code = 200) =>
        LET event == events[resp'.event.id]
            feedback == resp'.event.payload["user_feedback"]
        IN  AcceptedFor(event, feedback) =>
                /\ AppliesOneStep(event, feedback, resp'.learning)
                /\ HoldsLatest(events'[event.id].payload, feedback, resp'.learning)
                /\ resp'.event = events'[event.id]

\* C39: feedback is not deduplicated per event: every accepted feedback
\* request applies one clamped step of +0.05 or -0.05 to the stored bucket,
\* starting from what the previous one stored, whether or not the event
\* already has feedback, and the event's user_feedback and learning_update
\* are those of the latest submission
C39_EverySubmissionSteps == [][RepeatStep]_vars

\* C39 witness: the same helpful feedback was submitted three times for one
\* event, the only one with feedback: the stored bucket is the uniform prior
\* stepped three times and the event holds the third update only
C39_ThreeStepsOneEvent ==
    /\ nfeedback = MaxRepeats
    /\ resp.op = "feedback" /\ resp.code = 200 /\ resp.learning # NoneD
    /\ Cardinality({i \in DOMAIN events : HasKey(events[i].payload, "user_feedback")}) = 1
    /\ LET update == resp.learning
           twice == OneStep(OneStep(DEFAULT_PRIORS, update.updated_label, DELTA),
                            update.updated_label, DELTA)
       IN  /\ update.helpful = "True"
           /\ update.before = twice
           /\ BucketStoredIn(memory, update.time_bucket)
                = OneStep(twice, update.updated_label, DELTA)
           /\ events[resp.event.id].payload["learning_update"] = update


====
